---- MODULE Spec2Model ----
(***************************************************************************)
(* A model of pdf-tools: the merge tool (src/main.py) and the two variants *)
(* of the rotate/layout tool (src/pdf_rotator_cli.py, src/pdf_rotator.py). *)
(*                                                                         *)
(* The module holds one state machine per component, each with its own     *)
(* specification, and Spec, their union:                                   *)
(*   SpecGeom   one call of arrange_pages_on_a4_rotated(_three)            *)
(*   SpecRot    one call of process_pdf (rotate/layout, cli and gui)       *)
(*   SpecTitle  one call of make_title_page                                *)
(*   SpecSort   one call of iter_pdfs                                      *)
(*   SpecMerge  one call of merge                                          *)
(*   SpecCli    one run of the rotate/layout command line (main)           *)
(*   SpecGui    the rotate/layout window and its worker thread             *)
(*   SpecApp    the merge window                                           *)
(*   SpecDrivers  the three drivers: SpecCli, SpecGui and SpecApp          *)
(*                                                                         *)
(* Lengths are exact rationals in PDF points (Python computes them in      *)
(* binary floating point; rounding is not modelled).                       *)
(***************************************************************************)
EXTENDS Integers, Sequences, FiniteSets, TLC

VARIABLES
    g_pc,          \* arrange_pages_on_a4_rotated(_three): "idle", "placing", "returned"
    g_variant,     \* "cli" (pdf_rotator_cli.py) or "gui" (pdf_rotator.py)
    g_orientation, \* the layout string handed to the layout function
    g_gap,         \* gap in whole points (argparse type=int; int(gap_input.text()))
    g_size_factor, \* size_factor, a rational (the gui variant has none)
    g_count,       \* how many source pages the caller passed (1..2, or 1..3)
    g_slots,       \* the slots used on the sheet so far, in call order
    g_last         \* the last merge_transformed_page call, <<>> before the first:
                   \* <<[page, slot, scale, tx, ty, transform]>>

VARIABLES
    r_pc,          \* process_pdf: "idle", "start", "loop", "done"
    r_variant,     \* "cli" (pdf_rotator_cli.py) or "gui" (pdf_rotator.py)
    r_layout,      \* the layout argument
    r_total,       \* total_pages = len(reader.pages)
    r_bad,         \* input: 0 = every page readable, k > 0 = reading page k raises,
                   \* -1 = PdfReader(input_file) raises
    r_wfail,       \* input: opening or writing the output file raises
    r_i,           \* the loop variable i
    r_sheets,      \* writer: the sheets added, each the sequence of the 1-based
                   \* numbers of the source pages placed on it, in slot order
    r_written,     \* the output file: <<>> = not written, <<sheets>> = written
    r_announced,   \* output_pages of the final success message, -1 = no such message
    r_result,      \* the value returned, -2 = not returned yet
    r_msgs         \* the status messages given out so far (print, or status_callback)

VARIABLES
    t_pc,          \* make_title_page: "idle", "start", "done"
    t_text,        \* the text argument, a sequence of characters
    t_fail,        \* input: a canvas or PdfReader call inside the try raises
    t_result       \* <<>> = not returned yet, else <<value>>: what the call returned

VARIABLES
    s_pc,          \* iter_pdfs: "idle", "start", "done"
    s_dir,         \* folder.glob("*.pdf"): the file names, in the order glob gives them
    s_out          \* <<>> = not finished, else <<result>>: the names yielded, or the
                   \* exception raised

VARIABLES
    m_pc,          \* merge: "idle", "start", "loop", "done", "raised"
    m_dir,         \* dir_path: the files glob gives, in glob's order, [name, pages]
    m_paths,       \* pdf_paths
    m_i,           \* the 1-based position in pdf_paths of the next file
    m_writer,      \* writer: the pages added so far, [kind, file, num, attempt]
    m_log,         \* per file handled: what was done for it (see MergeFile)
    m_wfail,       \* creating or writing the output file raised
    m_merged_count,
    m_processed_page_count,
    m_out,         \* the output file: <<>> = not written, else the pages written
    m_result,      \* the value returned, -3 = not returned yet
    m_file         \* what merge did to the output path: "untouched", "truncated"
                   \* (opened for writing, then the write raised), "written"

VARIABLES
    c_pc,          \* pdf_rotator_cli.py main: "idle", "start", "asking", "processing",
                   \* "exited"
    c_args_ok,     \* input: argparse accepts the command line
    c_in_exists,   \* input: input_path.exists()
    c_in_pdf,      \* input: input_path.suffix.lower() == '.pdf'
    c_out_exists,  \* input: output_path.exists()
    c_response,    \* input: what the user types at the overwrite prompt
    c_asked,       \* the overwrite prompt was shown
    c_exit         \* the exit code of the process, -1 = still running

VARIABLES
    u_pc,          \* PDFRotatorApp: "idle" (no window), "ready"
    u_input_file,  \* self.input_file is set
    u_output_file, \* self.output_file is set
    u_out_exists,  \* self.output_file.exists()
    u_input_button,   \* input_button.isEnabled()
    u_output_button,  \* output_button.isEnabled()
    u_process_button, \* process_button.isEnabled()
    u_modal,       \* the modal dialog that is open: "none", "question"
    u_confirmed,   \* the user answered Yes to the overwrite question of this run
    u_running,     \* workers started whose completion code is not handled yet
    u_emitted,     \* the completion codes the current worker has emitted, in order
    u_handled,     \* how many progress messages of the current worker were handled
    u_unconfirmed  \* a worker was started on an existing output without a Yes

VARIABLES
    a_pc,          \* PdfMergerApp: "idle" (no window), "ready", "merging"
    a_input_dir,   \* self.input_dir is set
    a_output_file, \* self.output_file is set
    a_out_exists,  \* self.output_file.exists()
    a_dir_button,  \* dir_button.isEnabled()
    a_out_button,  \* out_button.isEnabled()
    a_merge_button, \* merge_button.isEnabled()
    a_modal,       \* the modal dialog that is open: "none", "question"
    a_confirmed,   \* the user answered Yes to the overwrite question of this run
    a_box,         \* the message box run_merge showed last, "none" before the first
    a_unconfirmed  \* merge was started on an existing output without a Yes

geomVars == <<g_pc, g_variant, g_orientation, g_gap, g_size_factor, g_count, g_slots, g_last>>

rotVars == <<r_pc, r_variant, r_layout, r_total, r_bad, r_wfail, r_i, r_sheets,
             r_written, r_announced, r_result, r_msgs>>

titleVars == <<t_pc, t_text, t_fail, t_result>>

sortVars == <<s_pc, s_dir, s_out>>

mergeVars == <<m_pc, m_dir, m_paths, m_i, m_writer, m_log, m_wfail, m_merged_count,
               m_processed_page_count, m_out, m_result, m_file>>

cliVars == <<c_pc, c_args_ok, c_in_exists, c_in_pdf, c_out_exists, c_response, c_asked,
             c_exit>>

guiVars == <<u_pc, u_input_file, u_output_file, u_out_exists, u_input_button,
             u_output_button, u_process_button, u_modal, u_confirmed, u_running,
             u_emitted, u_handled, u_unconfirmed>>

appVars == <<a_pc, a_input_dir, a_output_file, a_out_exists, a_dir_button, a_out_button,
             a_merge_button, a_modal, a_confirmed, a_box, a_unconfirmed>>

vars == <<geomVars, rotVars, titleVars, sortVars, mergeVars, cliVars, guiVars, appVars>>

----------------------------------------------------------------------------
(* Exact rational arithmetic, standing for Python's float arithmetic.      *)

Abs(i) == IF i < 0 THEN -i ELSE i

RECURSIVE GCD(_, _)
GCD(a, b) == IF b = 0 THEN a ELSE GCD(b, a % b)

\* n / d in lowest terms with a positive denominator (d # 0)
Rat(n, d) ==
    LET g == GCD(Abs(n), Abs(d))
        s == IF d < 0 THEN -1 ELSE 1
    IN  [n |-> s * (n \div g), d |-> s * (d \div g)]

RatInt(i) == [n |-> i, d |-> 1]

RatIsZero(x) == x.n = 0

RatNeg(x) == [n |-> -x.n, d |-> x.d]

RatAdd(x, y) ==
    LET g == GCD(x.d, y.d)
    IN  Rat(x.n * (y.d \div g) + y.n * (x.d \div g), (x.d \div g) * y.d)

RatSub(x, y) == RatAdd(x, RatNeg(y))

RatMul(x, y) ==
    LET g1 == GCD(Abs(x.n), y.d)
        g2 == GCD(Abs(y.n), x.d)
    IN  Rat((x.n \div g1) * (y.n \div g2), (x.d \div g2) * (y.d \div g1))

\* x / y, y # 0
RatDiv(x, y) ==
    RatMul(x, IF y.n < 0 THEN [n |-> -y.d, d |-> -y.n] ELSE [n |-> y.d, d |-> y.n])

RatLe(x, y) == RatSub(x, y).n <= 0

RatLt(x, y) == RatSub(x, y).n < 0

\* Python's min(a, b) and max(a, b): the first argument unless the second is
\* strictly smaller (larger)
RatMin(x, y) == IF RatLt(y, x) THEN y ELSE x

RatMax(x, y) == IF RatLt(x, y) THEN y ELSE x

----------------------------------------------------------------------------
(* Sheet size: reportlab.lib.pagesizes.A4 = (210*mm, 297*mm) with          *)
(* mm = 72/25.4 points, i.e. 595.2756 x 841.8898 points.                   *)

A4_WIDTH == Rat(210 * 720, 254)

A4_HEIGHT == Rat(297 * 720, 254)

----------------------------------------------------------------------------
(* pypdf's Transformation: the matrix (a, b, c, d, e, f) mapping (x, y) to *)
(* (a*x + c*y + e, b*x + d*y + f); each method composes its operation      *)
(* after the ones already recorded.                                        *)

Transformation ==
    [a |-> RatInt(1), b |-> RatInt(0), c |-> RatInt(0), d |-> RatInt(1),
     e |-> RatInt(0), f |-> RatInt(0)]

\* .rotate(90): counter-clockwise, (x, y) -> (-y, x)
rotate90(t) ==
    [a |-> RatNeg(t.b), b |-> t.a, c |-> RatNeg(t.d), d |-> t.c,
     e |-> RatNeg(t.f), f |-> t.e]

\* .translate(tx, ty)
translate(t, tx, ty) == [t EXCEPT !.e = RatAdd(@, tx), !.f = RatAdd(@, ty)]

\* .scale(sx, sy)
scale2(t, sx, sy) ==
    [a |-> RatMul(t.a, sx), b |-> RatMul(t.b, sy), c |-> RatMul(t.c, sx),
     d |-> RatMul(t.d, sy), e |-> RatMul(t.e, sx), f |-> RatMul(t.f, sy)]

\* .scale(s): sy defaults to sx
scale1(t, s) == scale2(t, s, s)

\* the image of the point (x, y)
ApplyX(t, x, y) == RatAdd(RatAdd(RatMul(t.a, x), RatMul(t.c, y)), t.e)

ApplyY(t, x, y) == RatAdd(RatAdd(RatMul(t.b, x), RatMul(t.d, y)), t.f)

----------------------------------------------------------------------------
(* The layout geometry of pdf_rotator_cli.py and pdf_rotator.py.           *)
(* A source page is [w, h], its media box size in points.                  *)

\* place_rotated: the slot size of the two-up layouts
SlotSize(orientation, gap) ==
    IF orientation = "top-bottom"
    THEN [w |-> A4_WIDTH,
          h |-> RatDiv(RatSub(A4_HEIGHT, RatInt(gap)), RatInt(2))]
    ELSE [w |-> RatDiv(RatSub(A4_WIDTH, RatInt(gap)), RatInt(2)),
          h |-> A4_HEIGHT]

\* place_rotated: the slot origin: base_y (top-bottom) or base_x (otherwise)
SlotBaseNoGap(orientation, slot_index, gap) ==
    LET sz == SlotSize(orientation, gap)
    IN  IF orientation = "top-bottom"
        THEN [x |-> RatInt(0), y |-> IF slot_index = 0 THEN sz.h ELSE RatInt(0)]
        ELSE [x |-> IF slot_index = 0 THEN RatInt(0) ELSE sz.w, y |-> RatInt(0)]

SlotBase(orientation, slot_index, gap) ==
    LET sz == SlotSize(orientation, gap)
    IN  IF orientation = "top-bottom"
        THEN [x |-> RatInt(0),
              y |-> IF slot_index = 0 THEN RatAdd(sz.h, RatInt(gap)) ELSE RatInt(0)]
        ELSE [x |-> IF slot_index = 0 THEN RatInt(0) ELSE RatAdd(sz.w, RatInt(gap)),
              y |-> RatInt(0)]

\* arrange_pages_on_a4_rotated_three: rows, cols = 3, 1
ThreeSlotSize(gap) ==
    [w |-> RatDiv(A4_WIDTH, RatInt(1)),
     h |-> RatDiv(RatSub(A4_HEIGHT, RatInt((3 - 1) * gap)), RatInt(3))]

\* place_at: base_x = 0, base_y = A4_HEIGHT - (row+1)*slot_height - row*gap
ThreeSlotBase(row_index, gap) ==
    [x |-> RatInt(0),
     y |-> RatSub(RatSub(A4_HEIGHT,
                         RatMul(RatInt(row_index + 1), ThreeSlotSize(gap).h)),
                  RatInt(row_index * gap))]

\* max_scale = min(slot_width / rot_w if rot_w else 1, slot_height / rot_h if rot_h else 1)
MaxScaleLoose(slot_width, slot_height, rot_w, rot_h) ==
    RatMax(IF ~RatIsZero(rot_w) THEN RatDiv(slot_width, rot_w) ELSE RatInt(1),
           IF ~RatIsZero(rot_h) THEN RatDiv(slot_height, rot_h) ELSE RatInt(1))

MaxScale(slot_width, slot_height, rot_w, rot_h) ==
    RatMin(IF ~RatIsZero(rot_w) THEN RatDiv(slot_width, rot_w) ELSE RatInt(1),
           IF ~RatIsZero(rot_h) THEN RatDiv(slot_height, rot_h) ELSE RatInt(1))

\* max(0.1, min(1.0, size_factor))
ClampSizeNoCeiling(size_factor) == RatMax(Rat(1, 10), size_factor)

ClampSizeNoFloor(size_factor) == RatMin(RatInt(1), size_factor)

ClampSize(size_factor) == RatMax(Rat(1, 10), RatMin(RatInt(1), size_factor))

\* The rest of place_rotated / place_at once the slot and the scale are known:
\* centre the content in the slot, build the transformation and merge the page.
\* The record is what the sheet receives; slot names the code's base_x/base_y,
\* slot_width and slot_height.
Placement(src, base, sz, scale) ==
    LET rot_w == src.h
        rot_h == src.w
        content_w == RatMul(rot_w, scale)
        content_h == RatMul(rot_h, scale)
        tx == RatAdd(base.x, RatDiv(RatSub(sz.w, content_w), RatInt(2)))
        ty == RatAdd(base.y, RatDiv(RatSub(sz.h, content_h), RatInt(2)))
    IN  [page |-> src,
         slot |-> [x |-> base.x, y |-> base.y, w |-> sz.w, h |-> sz.h],
         scale |-> scale, tx |-> tx, ty |-> ty,
         transform |-> translate(scale1(translate(rotate90(Transformation),
                                                  src.h, RatInt(0)), scale), tx, ty)]

\* pdf_rotator_cli.py place_rotated(src_page, slot_index)
place_rotated(src, slot_index, gap, orientation, size_factor) ==
    LET sz == SlotSize(orientation, gap)
        max_scale == MaxScale(sz.w, sz.h, src.h, src.w)
        scale == RatMul(ClampSize(size_factor), max_scale)
    IN  Placement(src, SlotBase(orientation, slot_index, gap), sz, scale)

\* pdf_rotator.py place_rotated(src_page, slot_index): no size factor
place_rotated_gui(src, slot_index, gap, orientation) ==
    LET sz == SlotSize(orientation, gap)
        scale == MaxScale(sz.w, sz.h, src.h, src.w)
    IN  Placement(src, SlotBase(orientation, slot_index, gap), sz, scale)

\* pdf_rotator_cli.py place_at(src_page, row_index)
place_at(src, row_index, gap, size_factor) ==
    LET sz == ThreeSlotSize(gap)
        max_scale == MaxScale(sz.w, sz.h, src.h, src.w)
        scale == RatMul(ClampSize(size_factor), max_scale)
    IN  Placement(src, ThreeSlotBase(row_index, gap), sz, scale)

----------------------------------------------------------------------------
(* SpecGeom: one call of a layout function.                                *)
(*   cli, side-by-side / top-bottom : arrange_pages_on_a4_rotated(page1,   *)
(*                                    page2, gap, orientation, size_factor)*)
(*   cli, top-bottom-3              : arrange_pages_on_a4_rotated_three(   *)
(*                                    pages, gap, size_factor)             *)
(*   gui, any layout string         : arrange_pages_on_a4_rotated(page1,   *)
(*                                    page2, gap, orientation)             *)
(* process_pdf chooses the function this way (cli lines 161-179, gui lines *)
(* 170-179).  The media box of each page is read when the page is placed.  *)

MaxPageDim == 2

PageUnit == 100 * 1

\* media box sizes: 0, 100, 200, ... points each way (a zero side is what the
\* code's "if rot_w else 1" guards)
PageSamples ==
    {[w |-> RatInt(PageUnit * i), h |-> RatInt(PageUnit * j)] :
        i \in 0..MaxPageDim, j \in 0..MaxPageDim}

\* gaps in points: small ones, and the values around the sheet's extent along the
\* split axis (595.28 side-by-side, 841.89 top-bottom, 841.89 / 2 top-bottom-3)
GapSamples == {0, 20, 420, 421, 595, 596, 841, 842}

\* --size values: below the floor, inside, at the ceiling and above it
SizeSamples == {RatInt(-1), Rat(1, 20), Rat(1, 2), RatInt(1), Rat(3, 2)}

Layouts == {"side-by-side", "top-bottom", "top-bottom-3"}

\* a layout string that is none of the three (the functions take any string)
OtherLayouts == {"diagonal"}

UsesThree == g_variant = "cli" /\ g_orientation = "top-bottom-3"

InitGeom ==
    /\ g_pc = "placing"
    /\ g_variant \in {"cli", "gui"}
    /\ g_orientation \in Layouts \cup OtherLayouts
    /\ g_gap \in GapSamples
    /\ g_size_factor \in IF g_variant = "cli" THEN SizeSamples ELSE {RatInt(1)}
    /\ g_count \in IF UsesThree THEN 1..3 ELSE 1..2
    /\ g_slots = <<>>
    /\ g_last = <<>>
    \* the other components are at rest
    /\ c_pc = "idle" /\ c_args_ok = TRUE /\ c_in_exists = FALSE /\ c_in_pdf = FALSE
    /\ c_out_exists = FALSE /\ c_response = "" /\ c_asked = FALSE /\ c_exit = -1
    /\ u_pc = "idle" /\ u_input_file = FALSE /\ u_output_file = FALSE
    /\ u_out_exists = FALSE /\ u_input_button = FALSE /\ u_output_button = FALSE
    /\ u_process_button = FALSE /\ u_modal = "none" /\ u_confirmed = FALSE
    /\ u_running = 0 /\ u_emitted = <<>> /\ u_handled = 0 /\ u_unconfirmed = FALSE
    /\ a_pc = "idle" /\ a_input_dir = FALSE /\ a_output_file = FALSE
    /\ a_out_exists = FALSE /\ a_dir_button = FALSE /\ a_out_button = FALSE
    /\ a_merge_button = FALSE /\ a_modal = "none" /\ a_confirmed = FALSE
    /\ a_box = "none" /\ a_unconfirmed = FALSE
    /\ r_pc = "idle" /\ r_variant = "none" /\ r_layout = "none" /\ r_total = 0
    /\ r_bad = 0 /\ r_wfail = FALSE /\ r_i = 0 /\ r_sheets = <<>> /\ r_written = <<>>
    /\ r_announced = -1 /\ r_result = -2 /\ r_msgs = <<>>
    /\ t_pc = "idle" /\ t_text = <<>> /\ t_fail = FALSE /\ t_result = <<>>
    /\ s_pc = "idle" /\ s_dir = <<>> /\ s_out = <<>>
    /\ m_pc = "idle" /\ m_dir = <<>> /\ m_paths = <<>> /\ m_i = 0 /\ m_writer = <<>>
    /\ m_log = <<>> /\ m_wfail = FALSE /\ m_merged_count = 0
    /\ m_processed_page_count = 0 /\ m_out = <<>> /\ m_result = -3
    /\ m_file = "untouched"

\* the sheet after one more merge_transformed_page call
Merged(p) == g_slots' = Append(g_slots, p.slot) /\ g_last' = <<p>>

\* cli: place_rotated(page1, 0); if page2 is not None: place_rotated(page2, 1)
GeomPlaceRotated ==
    /\ g_pc = "placing" /\ g_variant = "cli" /\ ~UsesThree
    /\ Len(g_slots) < g_count
    /\ \E src \in PageSamples :
          Merged(
              place_rotated(src, Len(g_slots), g_gap, g_orientation, g_size_factor))
    /\ UNCHANGED <<g_pc, g_variant, g_orientation, g_gap, g_size_factor, g_count>>
    /\ UNCHANGED <<rotVars, titleVars, sortVars, mergeVars, cliVars, guiVars, appVars>>

\* gui: the same two calls, without a size factor
GeomPlaceRotatedGui ==
    /\ g_pc = "placing" /\ g_variant = "gui"
    /\ Len(g_slots) < g_count
    /\ \E src \in PageSamples :
          Merged(
              place_rotated_gui(src, Len(g_slots), g_gap, g_orientation))
    /\ UNCHANGED <<g_pc, g_variant, g_orientation, g_gap, g_size_factor, g_count>>
    /\ UNCHANGED <<rotVars, titleVars, sortVars, mergeVars, cliVars, guiVars, appVars>>

\* cli: for idx, p in enumerate(pages[:3]): place_at(p, idx)
GeomPlaceAt ==
    /\ g_pc = "placing" /\ UsesThree
    /\ Len(g_slots) < g_count
    /\ \E src \in PageSamples :
          Merged(
              place_at(src, Len(g_slots), g_gap, g_size_factor))
    /\ UNCHANGED <<g_pc, g_variant, g_orientation, g_gap, g_size_factor, g_count>>
    /\ UNCHANGED <<rotVars, titleVars, sortVars, mergeVars, cliVars, guiVars, appVars>>

\* return a4_page
GeomReturn ==
    /\ g_pc = "placing"
    /\ Len(g_slots) = g_count
    /\ g_pc' = "returned"
    /\ UNCHANGED <<g_variant, g_orientation, g_gap, g_size_factor, g_count, g_slots, g_last>>
    /\ UNCHANGED <<rotVars, titleVars, sortVars, mergeVars, cliVars, guiVars, appVars>>

NextGeom == GeomPlaceRotated \/ GeomPlaceRotatedGui \/ GeomPlaceAt \/ GeomReturn

SpecGeom == InitGeom /\ [][NextGeom]_vars

----------------------------------------------------------------------------
(* Properties of the layout geometry (SpecGeom).                           *)

Right(s) == RatAdd(s.x, s.w)

Top(s) == RatAdd(s.y, s.h)

Between(lo, v, hi) == RatLe(lo, v) /\ RatLe(v, hi)

\* both corners of the slot are on the sheet
InsideSheet(s) ==
    /\ Between(RatInt(0), s.x, A4_WIDTH) /\ Between(RatInt(0), Right(s), A4_WIDTH)
    /\ Between(RatInt(0), s.y, A4_HEIGHT) /\ Between(RatInt(0), Top(s), A4_HEIGHT)

\* the interiors of the two slots do not meet
Disjoint(s, t) ==
    \/ RatLe(Right(s), t.x) \/ RatLe(Right(t), s.x)
    \/ RatLe(Top(s), t.y) \/ RatLe(Top(t), s.y)

\* the layouts that stack their slots top to bottom (slot 0 topmost)
Stacked == g_orientation \in {"top-bottom", "top-bottom-3"}

\* slot i+1 follows slot i along the split axis at a distance of exactly the gap
GapBetween(s, t) ==
    IF Stacked THEN RatSub(s.y, Top(t)) = RatInt(g_gap)
               ELSE RatSub(t.x, Right(s)) = RatInt(g_gap)

\* the layout function was given one of its own layouts (the gui variant has no
\* three-row layout)
OwnLayout ==
    /\ g_orientation \in Layouts
    /\ g_variant = "cli" \/ g_orientation # "top-bottom-3"

\* the gap leaves room for the slots: it is at most the sheet's extent along the
\* split axis (twice the gap for the three-row layout)
GapFits ==
    IF g_orientation = "top-bottom-3" THEN RatLe(RatInt(2 * g_gap), A4_HEIGHT)
    ELSE IF g_orientation = "top-bottom" THEN RatLe(RatInt(g_gap), A4_HEIGHT)
    ELSE RatLe(RatInt(g_gap), A4_WIDTH)

SlotsWellPlaced ==
    /\ \A i \in 1..Len(g_slots) : InsideSheet(g_slots[i])
    /\ \A i, j \in 1..Len(g_slots) : i < j => Disjoint(g_slots[i], g_slots[j])
    /\ \A i \in 1..(Len(g_slots) - 1) : GapBetween(g_slots[i], g_slots[i + 1])

\* C3 as stated: for every layout and every gap >= 0 the slots used on a sheet are
\* pairwise non-overlapping, consecutive slots are exactly the gap apart along the
\* split axis, and every slot lies inside the sheet.
C3_SlotsEveryGap == OwnLayout => SlotsWellPlaced

\* C3 amended: the same, for every gap between 0 and the sheet's extent along the
\* split axis (the sheet width side-by-side, the sheet height top-bottom, half the
\* sheet height top-bottom-3).
C3_SlotsWhenGapFits == (OwnLayout /\ GapFits) => SlotsWellPlaced

\* a full three-row sheet with a positive gap that fits
C3_Witness ==
    /\ g_pc = "returned" /\ UsesThree /\ Len(g_slots) = 3
    /\ g_gap > 0 /\ GapFits

\* min(slot.width / rotatedWidth, slot.height / rotatedHeight), a zero side
\* counting as ratio 1
FitScale(p) ==
    RatMin(IF RatIsZero(p.page.h) THEN RatInt(1) ELSE RatDiv(p.slot.w, p.page.h),
           IF RatIsZero(p.page.w) THEN RatInt(1) ELSE RatDiv(p.slot.h, p.page.w))

\* the corners of the page's media box
Corners(pg) == {<<RatInt(0), RatInt(0)>>, <<pg.w, RatInt(0)>>, <<RatInt(0), pg.h>>, <<pg.w, pg.h>>}

ContentFits(p) ==
    \* scale at most the fit scale
    /\ RatLe(p.scale, FitScale(p))
    \* one scale on both axes: the matrix is a rotation by 90 degrees times p.scale
    /\ p.transform.a = RatInt(0) /\ p.transform.d = RatInt(0)
    /\ p.transform.b = p.scale /\ p.transform.c = RatNeg(p.scale)
    \* the rectangle rotatedWidth*scale by rotatedHeight*scale at (tx, ty) is in the slot
    /\ Between(p.slot.x, p.tx, Right(p.slot))
    /\ Between(p.slot.x, RatAdd(p.tx, RatMul(p.page.h, p.scale)), Right(p.slot))
    /\ Between(p.slot.y, p.ty, Top(p.slot))
    /\ Between(p.slot.y, RatAdd(p.ty, RatMul(p.page.w, p.scale)), Top(p.slot))
    \* and so is the image of the media box under the transformation
    /\ \A c \in Corners(p.page) :
          /\ Between(p.slot.x, ApplyX(p.transform, c[1], c[2]), Right(p.slot))
          /\ Between(p.slot.y, ApplyY(p.transform, c[1], c[2]), Top(p.slot))

\* C4 as stated: for every source page, slot and size factor the scale is at most
\* the fit scale, the same on both axes, and the placed content stays in its slot.
C4_ContentFitsEverySlot == g_last # <<>> => ContentFits(g_last[1])

\* C4 amended: the same, for every slot of non-negative width and height (a gap of
\* at most the sheet's extent along the split axis).
C4_ContentFitsSlot ==
    (/\ g_last # <<>>
     /\ RatLe(RatInt(0), g_last[1].slot.w) /\ RatLe(RatInt(0), g_last[1].slot.h))
        => ContentFits(g_last[1])

\* a page with two positive sides placed at half size in the second slot
C4_Witness ==
    /\ g_last # <<>> /\ Len(g_slots) = 2 /\ g_variant = "cli" /\ g_size_factor = Rat(1, 2) /\ g_gap = 20
    /\ g_last[1].page.w # RatInt(0) /\ g_last[1].page.h # RatInt(0)
    /\ RatLt(g_last[1].scale, FitScale(g_last[1]))
    /\ RatLt(RatInt(0), g_last[1].scale)

\* the placement the cli layout function makes of page src in slot i with size factor sf
CliPlacement(src, i, sf) ==
    IF UsesThree THEN place_at(src, i, g_gap, sf)
                 ELSE place_rotated(src, i, g_gap, g_orientation, sf)

\* C5: a size factor outside [0.1, 1.0] is clamped, never rejected: above 1.0 the
\* transform is the one computed with 1.0, below 0.1 the one computed with 0.1.
C5_SizeFactorClamped ==
    (g_variant = "cli" /\ g_last # <<>>) =>
        /\ RatLt(RatInt(1), g_size_factor) =>
              g_last[1] = CliPlacement(g_last[1].page, Len(g_slots) - 1, RatInt(1))
        /\ RatLt(g_size_factor, Rat(1, 10)) =>
              g_last[1] = CliPlacement(g_last[1].page, Len(g_slots) - 1, Rat(1, 10))

\* a sheet laid out with --size 1.5, returned with a page of positive size on it
C5_Witness ==
    /\ g_pc = "returned" /\ g_variant = "cli" /\ g_size_factor = Rat(3, 2)
    /\ g_last # <<>>
    /\ g_last[1].page.w # RatInt(0) /\ g_last[1].page.h # RatInt(0)
    /\ g_last[1].scale = FitScale(g_last[1])
    /\ RatLt(RatInt(0), g_last[1].scale)

----------------------------------------------------------------------------
(* SpecRot: one call of process_pdf.                                       *)
(*                                                                         *)
(* pdf_rotator.py (gui): process_pdf(input_file, output_file, gap_points,  *)
(* status_callback, layout), lines 131-198.                                *)
(* pdf_rotator_cli.py (cli): process_pdf(input_file, output_file, gap_size,*)
(* layout, size_factor), lines 124-195.  In the file, lines 152-179 are    *)
(* indented inconsistently (the step assignment and the for statement sit  *)
(* at the level of the try statement, the rest of the loop body deeper),   *)
(* so Python rejects the module with a SyntaxError.  The model reads the   *)
(* statements in their written order with the one block structure under    *)
(* which i and page1 are bound where they are used: the loop is inside the *)
(* try and its body runs to line 179.                                      *)

MaxPages == 5

\* cli: step = 3 if layout == "top-bottom-3" else 2; gui: range(0, total_pages, 2)
Step(variant, layout) ==
    IF variant = "cli" /\ layout = "top-bottom-3" THEN 3 ELSE 2

\* a faulty variant of Group: the second page of the group comes first
GroupSwapped(variant, layout, i, total) ==
    IF i + 1 < total THEN <<i + 2, i + 1>> ELSE <<i + 1>>

\* the pages handed to the layout function for the group starting at 0-based i:
\* cli, top-bottom-3: page1, then pages i+1 and i+2 when they exist;
\* otherwise: page1, and page2 when i + 1 < total_pages
Group(variant, layout, i, total) ==
    IF variant = "cli" /\ layout = "top-bottom-3"
    THEN <<i + 1>> \o (IF i + 1 < total THEN <<i + 2>> ELSE <<>>)
                   \o (IF i + 2 < total THEN <<i + 3>> ELSE <<>>)
    ELSE <<i + 1>> \o (IF i + 1 < total THEN <<i + 2>> ELSE <<>>)

InitRot ==
    /\ r_pc = "start"
    /\ r_variant \in {"cli", "gui"}
    /\ r_layout \in Layouts
    /\ r_total \in 0..MaxPages
    /\ r_bad \in -1..r_total
    /\ r_wfail \in BOOLEAN
    /\ r_i = 0 /\ r_sheets = <<>> /\ r_written = <<>>
    /\ r_announced = -1 /\ r_result = -2 /\ r_msgs = <<>>
    \* the other components are at rest
    /\ c_pc = "idle" /\ c_args_ok = TRUE /\ c_in_exists = FALSE /\ c_in_pdf = FALSE
    /\ c_out_exists = FALSE /\ c_response = "" /\ c_asked = FALSE /\ c_exit = -1
    /\ u_pc = "idle" /\ u_input_file = FALSE /\ u_output_file = FALSE
    /\ u_out_exists = FALSE /\ u_input_button = FALSE /\ u_output_button = FALSE
    /\ u_process_button = FALSE /\ u_modal = "none" /\ u_confirmed = FALSE
    /\ u_running = 0 /\ u_emitted = <<>> /\ u_handled = 0 /\ u_unconfirmed = FALSE
    /\ a_pc = "idle" /\ a_input_dir = FALSE /\ a_output_file = FALSE
    /\ a_out_exists = FALSE /\ a_dir_button = FALSE /\ a_out_button = FALSE
    /\ a_merge_button = FALSE /\ a_modal = "none" /\ a_confirmed = FALSE
    /\ a_box = "none" /\ a_unconfirmed = FALSE
    /\ g_pc = "idle" /\ g_variant = "none" /\ g_orientation = "none" /\ g_gap = 0
    /\ g_size_factor = RatInt(1) /\ g_count = 0 /\ g_slots = <<>> /\ g_last = <<>>
    /\ t_pc = "idle" /\ t_text = <<>> /\ t_fail = FALSE /\ t_result = <<>>
    /\ s_pc = "idle" /\ s_dir = <<>> /\ s_out = <<>>
    /\ m_pc = "idle" /\ m_dir = <<>> /\ m_paths = <<>> /\ m_i = 0 /\ m_writer = <<>>
    /\ m_log = <<>> /\ m_wfail = FALSE /\ m_merged_count = 0
    /\ m_processed_page_count = 0 /\ m_out = <<>> /\ m_result = -3
    /\ m_file = "untouched"

\* reader = PdfReader(str(input_file)) raises: except Exception: return -1
RotReadFails ==
    /\ r_pc = "start" /\ r_bad = -1
    /\ r_pc' = "done" /\ r_result' = -1
    /\ r_msgs' = <<"reading", "error">>
    /\ UNCHANGED <<r_variant, r_layout, r_total, r_bad, r_wfail, r_i, r_sheets,
                   r_written, r_announced>>
    /\ UNCHANGED <<geomVars, titleVars, sortVars, mergeVars, cliVars, guiVars, appVars>>

\* if total_pages == 0: return -1
RotNoPages ==
    /\ r_pc = "start" /\ r_bad # -1 /\ r_total = 0
    /\ r_pc' = "done" /\ r_result' = -1
    /\ r_msgs' = <<"reading", "no pages">>
    /\ UNCHANGED <<r_variant, r_layout, r_total, r_bad, r_wfail, r_i, r_sheets,
                   r_written, r_announced>>
    /\ UNCHANGED <<geomVars, titleVars, sortVars, mergeVars, cliVars, guiVars, appVars>>

\* writer = PdfWriter(); the loop starts at i = 0
RotBegin ==
    /\ r_pc = "start" /\ r_bad # -1 /\ r_total > 0
    /\ r_pc' = "loop"
    /\ r_msgs' = <<"reading", "found">>
    /\ UNCHANGED <<r_variant, r_layout, r_total, r_bad, r_wfail, r_i, r_sheets,
                   r_written, r_announced, r_result>>
    /\ UNCHANGED <<geomVars, titleVars, sortVars, mergeVars, cliVars, guiVars, appVars>>

\* one iteration: lay the group out on a sheet and writer.add_page(a4_page)
RotCompose ==
    /\ r_pc = "loop" /\ r_i < r_total
    /\ LET pages == Group(r_variant, r_layout, r_i, r_total)
       IN  /\ \A k \in 1..Len(pages) : pages[k] # r_bad
           /\ r_sheets' = Append(r_sheets, pages)
    /\ r_i' = r_i + Step(r_variant, r_layout)
    /\ r_msgs' = r_msgs \o <<"processing">>
    /\ UNCHANGED <<r_pc, r_variant, r_layout, r_total, r_bad, r_wfail, r_written,
                   r_announced, r_result>>
    /\ UNCHANGED <<geomVars, titleVars, sortVars, mergeVars, cliVars, guiVars, appVars>>

\* a page of the group cannot be read: the exception leaves the loop and the try;
\* except Exception: return -1
RotComposeFails ==
    /\ r_pc = "loop" /\ r_i < r_total
    /\ LET pages == Group(r_variant, r_layout, r_i, r_total)
       IN  \E k \in 1..Len(pages) : pages[k] = r_bad
    /\ r_pc' = "done" /\ r_result' = -1
    /\ r_msgs' = r_msgs \o <<"processing", "error">>
    /\ UNCHANGED <<r_variant, r_layout, r_total, r_bad, r_wfail, r_i, r_sheets,
                   r_written, r_announced>>
    /\ UNCHANGED <<geomVars, titleVars, sortVars, mergeVars, cliVars, guiVars, appVars>>

\* after the loop: writer.write(fp); output_pages = (total_pages + 1) // 2;
\* the success message; return total_pages
RotSave ==
    /\ r_pc = "loop" /\ r_i >= r_total /\ ~r_wfail
    /\ r_written' = <<r_sheets>>
    /\ r_announced' = (r_total + 1) \div 2
    /\ r_pc' = "done" /\ r_result' = r_total
    /\ r_msgs' = r_msgs \o <<"saving", "success">>
    /\ UNCHANGED <<r_variant, r_layout, r_total, r_bad, r_wfail, r_i, r_sheets>>
    /\ UNCHANGED <<geomVars, titleVars, sortVars, mergeVars, cliVars, guiVars, appVars>>

\* mkdir, open or write raises: except Exception: return -1
RotSaveFails ==
    /\ r_pc = "loop" /\ r_i >= r_total /\ r_wfail
    /\ r_pc' = "done" /\ r_result' = -1
    /\ r_msgs' = r_msgs \o <<"saving", "error">>
    /\ UNCHANGED <<r_variant, r_layout, r_total, r_bad, r_wfail, r_i, r_sheets,
                   r_written, r_announced>>
    /\ UNCHANGED <<geomVars, titleVars, sortVars, mergeVars, cliVars, guiVars, appVars>>

NextRot ==
    \/ RotReadFails \/ RotNoPages \/ RotBegin \/ RotCompose \/ RotComposeFails
    \/ RotSave \/ RotSaveFails

SpecRot == InitRot /\ [][NextRot]_vars

\* ceil(n / step)
CeilDiv(n, step) == (n + step - 1) \div step

\* the step the layout calls for: 3 pages a sheet for top-bottom-3, else 2
LayoutStep(layout) == IF layout = "top-bottom-3" THEN 3 ELSE 2

\* C1: for every input document of N >= 1 pages and every layout, process_pdf
\* writes exactly ceil(N / step) sheets, step being 3 for top-bottom-3 and 2 for
\* side-by-side and top-bottom.
C1_SheetCount ==
    (r_pc = "done" /\ r_result > 0) =>
        /\ r_written # <<>>
        /\ Len(r_written[1]) = CeilDiv(r_total, LayoutStep(r_layout))

----------------------------------------------------------------------------
(* Text.  A string is a sequence of characters, each a one-character       *)
(* string; "^2" stands for the superscript two, U+00B2.                    *)

\* str.isspace for one character
IsSpace(c) == c = " "

\* text.split(): the maximal runs of non-whitespace characters, in order
RECURSIVE WordLen(_)
WordLen(s) ==
    IF s = <<>> \/ IsSpace(Head(s)) THEN 0 ELSE 1 + WordLen(Tail(s))

RECURSIVE split(_)
split(s) ==
    IF s = <<>> THEN <<>>
    ELSE IF IsSpace(Head(s)) THEN split(Tail(s))
    ELSE <<SubSeq(s, 1, WordLen(s))>> \o split(SubSeq(s, WordLen(s) + 1, Len(s)))

\* str.strip(): without the leading and trailing whitespace
RECURSIVE lstrip(_)
lstrip(s) == IF s # <<>> /\ IsSpace(Head(s)) THEN lstrip(Tail(s)) ELSE s

RECURSIVE rstrip(_)
rstrip(s) ==
    IF s # <<>> /\ IsSpace(s[Len(s)]) THEN rstrip(SubSeq(s, 1, Len(s) - 1)) ELSE s

\* a strip that strips nothing
stripNothing(s) == s

strip(s) == rstrip(lstrip(s))

----------------------------------------------------------------------------
(* make_title_page (src/main.py).                                          *)
(*                                                                         *)
(* Widths are measured in units of the width of a narrow Helvetica-Bold    *)
(* glyph at 32 points; TitleWidth is the sheet width in these units, so    *)
(* that texts of a few characters already exceed the budget of 80%.        *)
(* canvas.stringWidth adds up the glyph widths of the string.              *)

TitleWidth == 5

MaxTitleLen == 5

GlyphWidth(c) == IF c = "W" THEN 3 ELSE 1

RECURSIVE stringWidth(_)
stringWidth(s) == IF s = <<>> THEN 0 ELSE GlyphWidth(Head(s)) + stringWidth(Tail(s))

\* c.stringWidth(line, ...) <= max_width, with max_width = width * 0.8
FitsSheetWidth(line) == stringWidth(line) <= TitleWidth

FitsMaxWidth(line) == 10 * stringWidth(line) <= 8 * TitleWidth

\* the loop over parts, lines 74-86, and lines 88-89 after it
RECURSIVE WrapParts(_, _, _)
WrapParts(parts, lines, current_line) ==
    IF parts = <<>>
    THEN IF current_line # <<>> THEN Append(lines, current_line) ELSE lines
    ELSE LET part == Head(parts)
             test_line == strip(current_line \o <<" ">> \o part)
         IN  IF FitsMaxWidth(test_line)
             THEN WrapParts(Tail(parts), lines, test_line)
             ELSE LET flushed == IF current_line # <<>>
                                 THEN Append(lines, current_line) ELSE lines
                  IN  IF ~FitsMaxWidth(part)
                      THEN WrapParts(Tail(parts), Append(flushed, part), <<>>)
                      ELSE WrapParts(Tail(parts), flushed, part)

\* the strings given to drawCentredString, top line first
DrawnLines(text) ==
    IF ~FitsMaxWidth(text) THEN WrapParts(split(text), <<>>, <<>>) ELSE <<text>>

\* "if not text"
NotTextNever(text) == FALSE

NotText(text) == text = <<>>

\* What the call returns: [kind |-> "None"] or the one-page document, of which the
\* model keeps the lines drawn.  fail: some call inside the try raises; the except
\* clause returns None.
make_title_page(text, fail) ==
    IF NotText(text) THEN [kind |-> "None", pages |-> 0, lines |-> <<>>]
    ELSE IF fail THEN [kind |-> "None", pages |-> 0, lines |-> <<>>]
    ELSE [kind |-> "page", pages |-> 1, lines |-> DrawnLines(text)]

TitleAlphabet == {" ", "i", "W"}

RECURSIVE Strings(_, _)
Strings(alphabet, n) ==
    IF n = 0 THEN {<<>>}
    ELSE LET shorter == Strings(alphabet, n - 1)
         IN  shorter \cup {Append(x, c) : x \in shorter, c \in alphabet}

InitTitle ==
    /\ t_pc = "start"
    /\ t_text \in Strings(TitleAlphabet, MaxTitleLen)
    /\ t_fail \in BOOLEAN
    /\ t_result = <<>>
    \* the other components are at rest
    /\ c_pc = "idle" /\ c_args_ok = TRUE /\ c_in_exists = FALSE /\ c_in_pdf = FALSE
    /\ c_out_exists = FALSE /\ c_response = "" /\ c_asked = FALSE /\ c_exit = -1
    /\ u_pc = "idle" /\ u_input_file = FALSE /\ u_output_file = FALSE
    /\ u_out_exists = FALSE /\ u_input_button = FALSE /\ u_output_button = FALSE
    /\ u_process_button = FALSE /\ u_modal = "none" /\ u_confirmed = FALSE
    /\ u_running = 0 /\ u_emitted = <<>> /\ u_handled = 0 /\ u_unconfirmed = FALSE
    /\ a_pc = "idle" /\ a_input_dir = FALSE /\ a_output_file = FALSE
    /\ a_out_exists = FALSE /\ a_dir_button = FALSE /\ a_out_button = FALSE
    /\ a_merge_button = FALSE /\ a_modal = "none" /\ a_confirmed = FALSE
    /\ a_box = "none" /\ a_unconfirmed = FALSE
    /\ r_pc = "idle" /\ r_variant = "none" /\ r_layout = "none" /\ r_total = 0
    /\ r_bad = 0 /\ r_wfail = FALSE /\ r_i = 0 /\ r_sheets = <<>> /\ r_written = <<>>
    /\ r_announced = -1 /\ r_result = -2 /\ r_msgs = <<>>
    /\ g_pc = "idle" /\ g_variant = "none" /\ g_orientation = "none" /\ g_gap = 0
    /\ g_size_factor = RatInt(1) /\ g_count = 0 /\ g_slots = <<>> /\ g_last = <<>>
    /\ s_pc = "idle" /\ s_dir = <<>> /\ s_out = <<>>
    /\ m_pc = "idle" /\ m_dir = <<>> /\ m_paths = <<>> /\ m_i = 0 /\ m_writer = <<>>
    /\ m_log = <<>> /\ m_wfail = FALSE /\ m_merged_count = 0
    /\ m_processed_page_count = 0 /\ m_out = <<>> /\ m_result = -3
    /\ m_file = "untouched"

TitleCall ==
    /\ t_pc = "start"
    /\ t_result' = <<make_title_page(t_text, t_fail)>>
    /\ t_pc' = "done"
    /\ UNCHANGED <<t_text, t_fail>>
    /\ UNCHANGED <<geomVars, rotVars, sortVars, mergeVars, cliVars, guiVars, appVars>>

NextTitle == TitleCall

SpecTitle == InitTitle /\ [][NextTitle]_vars

\* the number of words of s: the places where a run of non-whitespace starts
WordCount(s) ==
    Cardinality({i \in 1..Len(s) : ~IsSpace(s[i]) /\ (i = 1 \/ IsSpace(s[i - 1]))})

\* the rendered width of the words of s joined by single spaces
RECURSIVE InkWidth(_)
InkWidth(s) ==
    IF s = <<>> THEN 0
    ELSE (IF IsSpace(Head(s)) THEN 0 ELSE GlyphWidth(Head(s))) + InkWidth(Tail(s))

JoinedWidth(s) ==
    InkWidth(s) + (IF WordCount(s) > 1 THEN (WordCount(s) - 1) * GlyphWidth(" ") ELSE 0)

\* wider than 80% of the sheet width
TooWide(width) == 10 * width > 8 * TitleWidth

IsSingleWord(line) == line # <<>> /\ \A i \in 1..Len(line) : ~IsSpace(line[i])

TitleDrawn == t_pc = "done" /\ t_result[1].kind = "page"

LinesWithinBudget ==
    \A i \in 1..Len(t_result[1].lines) :
        \/ ~TooWide(stringWidth(t_result[1].lines[i]))
        \/ IsSingleWord(t_result[1].lines[i])

IsBlank(text) == \A i \in 1..Len(text) : IsSpace(text[i])

\* never raises, and at most one page
ReturnsPageOrNone ==
    \/ t_result[1].kind = "None" /\ t_result[1].pages = 0
    \/ t_result[1].kind = "page" /\ t_result[1].pages = 1

\* C8 as stated: make_title_page returns None, without raising and without a page,
\* for every empty or whitespace-only text; for every other text it returns exactly
\* one page or None and never raises.
C8_NoneForBlankText ==
    t_pc = "done" =>
        /\ ReturnsPageOrNone
        /\ IsBlank(t_text) => t_result[1].kind = "None"

\* C8 amended: make_title_page returns None, without raising and without a page, for
\* the empty text; for every other text, whitespace-only texts included, it returns
\* exactly one page or None and never raises.
C8_NoneForEmptyText ==
    t_pc = "done" =>
        /\ ReturnsPageOrNone
        /\ t_text = <<>> => t_result[1].kind = "None"

\* the call with the empty text has returned None
C8_Witness == t_pc = "done" /\ t_text = <<>> /\ t_result[1].kind = "None"

----------------------------------------------------------------------------
(* natural_key and iter_pdfs (src/main.py).                                *)

\* the regular expression's \d: a decimal digit
IsReDigit(c) == c \in {"0", "1", "2"}

\* str.isdigit for one character: the decimal digits and also the other characters
\* with a digit value, such as the superscript two
IsDigitChar(c) == IsReDigit(c) \/ c = "^2"

\* the code point of a character
Ord(c) ==
    CASE c = " " -> 32 [] c = "." -> 46
      [] c = "0" -> 48 [] c = "1" -> 49 [] c = "2" -> 50
      [] c = "A" -> 65 [] c = "B" -> 66 [] c = "W" -> 87
      [] c = "a" -> 97 [] c = "b" -> 98 [] c = "c" -> 99 [] c = "d" -> 100
      [] c = "f" -> 102 [] c = "i" -> 105 [] c = "p" -> 112 [] c = "w" -> 119
      [] c = "^2" -> 178

\* str.lower for one character
LowerChar(c) ==
    CASE c = "A" -> "a" [] c = "B" -> "b" [] c = "W" -> "w" [] OTHER -> c

lower(s) == [i \in 1..Len(s) |-> LowerChar(s[i])]

\* the length of the longest prefix of s made of \d characters (digits = TRUE) or of
\* other characters (digits = FALSE)
RECURSIVE RunLen(_, _)
RunLen(s, digits) ==
    IF s = <<>> \/ IsReDigit(Head(s)) # digits THEN 0 ELSE 1 + RunLen(Tail(s), digits)

\* re.split(r"(\d+)", name): the text before the first digit run (possibly empty),
\* then alternately a digit run and the text after it (possibly empty)
RECURSIVE re_split(_)
re_split(s) ==
    LET n == RunLen(s, FALSE)
        rest == SubSeq(s, n + 1, Len(s))
        m == RunLen(rest, TRUE)
    IN  <<SubSeq(s, 1, n)>> \o
        (IF rest = <<>> THEN <<>>
         ELSE <<SubSeq(rest, 1, m)>> \o re_split(SubSeq(rest, m + 1, Len(rest))))

\* s.isdigit()
isdigit(s) == s # <<>> /\ \A i \in 1..Len(s) : IsDigitChar(s[i])

\* int(s) for a string of decimal digits
RECURSIVE DecimalValue(_)
DecimalValue(s) ==
    IF s = <<>> THEN 0
    ELSE 10 * DecimalValue(SubSeq(s, 1, Len(s) - 1)) + (Ord(s[Len(s)]) - Ord("0"))

\* one element of the key: int(s) if s.isdigit() else s.lower(); int raises
\* ValueError on a character that is not a decimal digit
KeyElement(s) ==
    IF isdigit(s)
    THEN IF \A i \in 1..Len(s) : IsReDigit(s[i])
         THEN [t |-> "int", v |-> DecimalValue(s), s |-> <<>>]
         ELSE [t |-> "ValueError", v |-> 0, s |-> s]
    ELSE [t |-> "str", v |-> 0, s |-> lower(s)]

\* natural_key(name): the list of key elements; raised = int raised ValueError
natural_key(name) ==
    LET chunks == re_split(name)
        key == [i \in 1..Len(chunks) |-> KeyElement(chunks[i])]
    IN  [raised |-> \E i \in 1..Len(key) : key[i].t = "ValueError", key |-> key]

\* str < str: by code points, a proper prefix first
RECURSIVE StrLess(_, _)
StrLess(x, y) ==
    IF y = <<>> THEN FALSE
    ELSE IF x = <<>> THEN TRUE
    ELSE IF Head(x) # Head(y) THEN Ord(Head(x)) < Ord(Head(y))
    ELSE StrLess(Tail(x), Tail(y))

\* list < list: the first pair of unequal elements decides (an int and a str are
\* unequal, and ordering them raises TypeError); without one the shorter list is less
RECURSIVE KeyCompare(_, _)
KeyCompare(x, y) ==
    IF x = <<>> /\ y = <<>> THEN "eq"
    ELSE IF x = <<>> THEN "lt"
    ELSE IF y = <<>> THEN "gt"
    ELSE IF Head(x) = Head(y) THEN KeyCompare(Tail(x), Tail(y))
    ELSE IF Head(x).t # Head(y).t THEN "TypeError"
    ELSE IF Head(x).t = "int"
         THEN (IF Head(x).v < Head(y).v THEN "lt" ELSE "gt")
         ELSE (IF StrLess(Head(x).s, Head(y).s) THEN "lt" ELSE "gt")

\* list.sort(key=...) is stable: an element goes behind the elements that are not
\* greater than it
RECURSIVE Insert(_, _)
Insert(sorted, name) ==
    IF sorted = <<>> THEN <<name>>
    ELSE IF KeyCompare(natural_key(name).key,
                       natural_key(sorted[Len(sorted)]).key) = "lt"
         THEN Append(Insert(SubSeq(sorted, 1, Len(sorted) - 1), name),
                     sorted[Len(sorted)])
         ELSE Append(sorted, name)

RECURSIVE SortedByKey(_)
SortedByKey(names) ==
    IF names = <<>> THEN <<>>
    ELSE Insert(SortedByKey(SubSeq(names, 1, Len(names) - 1)), names[Len(names)])

\* a faulty variant: the files in the order glob gives them
GlobOrder(names) ==
    [kind |-> "names", names |-> names]

\* iter_pdfs(folder) for the names glob gives: sort computes every key first, then
\* compares keys; an exception leaves iter_pdfs
iter_pdfs(names) ==
    IF \E i \in 1..Len(names) : natural_key(names[i]).raised
    THEN [kind |-> "ValueError", names |-> <<>>]
    ELSE IF \E i, j \in 1..Len(names) :
               KeyCompare(natural_key(names[i]).key, natural_key(names[j]).key)
                   = "TypeError"
    THEN [kind |-> "TypeError", names |-> <<>>]
    ELSE [kind |-> "names", names |-> SortedByKey(names)]

MaxStem == 2

SortAlphabet == {"a", "B", "1", "2", "^2"}

\* a file name matched by *.pdf
Pdf(stem) == stem \o <<".", "p", "d", "f">>

\* the listing of the natural-sort example: a10.pdf, a2.pdf, a1.pdf
ExampleDir == <<Pdf(<<"a", "1", "0">>), Pdf(<<"a", "2">>), Pdf(<<"a", "1">>)>>

InitSort ==
    /\ s_pc = "start"
    /\ s_dir \in {<<Pdf(x)>> : x \in Strings(SortAlphabet, MaxStem)}
          \cup {<<Pdf(x), Pdf(y)>> : x, y \in Strings(SortAlphabet, MaxStem)}
          \cup {ExampleDir}
    /\ \A i, j \in 1..Len(s_dir) : i # j => s_dir[i] # s_dir[j]
    /\ s_out = <<>>
    \* the other components are at rest
    /\ c_pc = "idle" /\ c_args_ok = TRUE /\ c_in_exists = FALSE /\ c_in_pdf = FALSE
    /\ c_out_exists = FALSE /\ c_response = "" /\ c_asked = FALSE /\ c_exit = -1
    /\ u_pc = "idle" /\ u_input_file = FALSE /\ u_output_file = FALSE
    /\ u_out_exists = FALSE /\ u_input_button = FALSE /\ u_output_button = FALSE
    /\ u_process_button = FALSE /\ u_modal = "none" /\ u_confirmed = FALSE
    /\ u_running = 0 /\ u_emitted = <<>> /\ u_handled = 0 /\ u_unconfirmed = FALSE
    /\ a_pc = "idle" /\ a_input_dir = FALSE /\ a_output_file = FALSE
    /\ a_out_exists = FALSE /\ a_dir_button = FALSE /\ a_out_button = FALSE
    /\ a_merge_button = FALSE /\ a_modal = "none" /\ a_confirmed = FALSE
    /\ a_box = "none" /\ a_unconfirmed = FALSE
    /\ r_pc = "idle" /\ r_variant = "none" /\ r_layout = "none" /\ r_total = 0
    /\ r_bad = 0 /\ r_wfail = FALSE /\ r_i = 0 /\ r_sheets = <<>> /\ r_written = <<>>
    /\ r_announced = -1 /\ r_result = -2 /\ r_msgs = <<>>
    /\ g_pc = "idle" /\ g_variant = "none" /\ g_orientation = "none" /\ g_gap = 0
    /\ g_size_factor = RatInt(1) /\ g_count = 0 /\ g_slots = <<>> /\ g_last = <<>>
    /\ t_pc = "idle" /\ t_text = <<>> /\ t_fail = FALSE /\ t_result = <<>>
    /\ m_pc = "idle" /\ m_dir = <<>> /\ m_paths = <<>> /\ m_i = 0 /\ m_writer = <<>>
    /\ m_log = <<>> /\ m_wfail = FALSE /\ m_merged_count = 0
    /\ m_processed_page_count = 0 /\ m_out = <<>> /\ m_result = -3
    /\ m_file = "untouched"

SortCall ==
    /\ s_pc = "start"
    /\ s_out' = <<iter_pdfs(s_dir)>>
    /\ s_pc' = "done"
    /\ UNCHANGED s_dir
    /\ UNCHANGED <<geomVars, rotVars, titleVars, mergeVars, cliVars, guiVars, appVars>>

NextSort == SortCall

SpecSort == InitSort /\ [][NextSort]_vars

\* the two sequences hold the same names, each once
SameNames(x, y) ==
    /\ Len(x) = Len(y)
    /\ {x[i] : i \in 1..Len(x)} = {y[i] : i \in 1..Len(y)}

\* C6: iter_pdfs yields the directory's PDF files in natural order of their names
\* (digit runs compared as integers, the other chunks as case-insensitive strings,
\* so a2.pdf comes before a10.pdf), and the key comparison is defined for every pair
\* of file names.
C6_NaturalOrder ==
    s_pc = "done" =>
        /\ s_out[1].kind = "names"
        /\ SameNames(s_out[1].names, s_dir)
        /\ \A i \in 1..(Len(s_out[1].names) - 1) :
              KeyCompare(natural_key(s_out[1].names[i]).key,
                         natural_key(s_out[1].names[i + 1]).key) \in {"lt", "eq"}
        /\ s_dir = ExampleDir =>
              s_out[1].names = <<Pdf(<<"a", "1">>), Pdf(<<"a", "2">>), Pdf(<<"a", "1", "0">>)>>

----------------------------------------------------------------------------
(* merge (src/main.py).  The directory is a listing, in the order glob     *)
(* gives it, of files with a name and a number of pages.  A page of the    *)
(* writer records the file it was added for, its number in that file (0    *)
(* for a title page) and the read attempt that added it (0 for a title     *)
(* page, 1 for the first read, 2 for the non-strict read); the scaled      *)
(* content merged onto the blank sheet is not part of the record.          *)

MaxFilePages == 2

File(name, pages) == [name |-> name, pages |-> pages]

Names(dir) == [i \in 1..Len(dir) |-> dir[i].name]

\* the number of pages of the file of that name
PagesOf(dir, name) == dir[CHOOSE i \in 1..Len(dir) : dir[i].name = name].pages

\* Path.stem of a name ending in .pdf
Stem(name) == SubSeq(name, 1, Len(name) - 4)

TitlePage(name) == [kind |-> "title", file |-> name, num |-> 0, attempt |-> 0]

\* the sheets added for the first k pages of a file by one read attempt
BodyPages(name, k, attempt) ==
    [n \in 1..k |-> [kind |-> "body", file |-> name, num |-> n, attempt |-> attempt]]

\* a read attempt that raises no exception
NoFail == 0 - 1

\* the number of sheets a read attempt adds: every page, or the pages added before
\* the exception
Added(pages, fail_at) == IF fail_at = NoFail THEN pages ELSE fail_at

\* the listings tried: the end-to-end example b.pdf, a.pdf, c10.pdf
ExampleListing ==
    <<File(Pdf(<<"b">>), 2), File(Pdf(<<"a">>), 1), File(Pdf(<<"c", "1", "0">>), 1)>>

\* names of listings of one or two files
ShortListings ==
    { <<Pdf(<<"b">>)>>,
      <<Pdf(<<"b">>), Pdf(<<"a">>)>>,
      <<Pdf(<<"c", "1", "0">>), Pdf(<<"c", "2">>)>>,
      <<Pdf(<<"W", "W">>), Pdf(<<"a">>)>>,
      <<Pdf(<<"^2", "1">>), Pdf(<<"a">>)>> }

InitMerge ==
    /\ m_pc = "start"
    /\ m_dir \in {<<>>, ExampleListing}
          \cup UNION { { [i \in 1..Len(l) |-> File(l[i], f[i])] :
                             f \in [1..Len(l) -> 1..MaxFilePages] } :
                       l \in ShortListings }
    /\ m_paths = <<>> /\ m_i = 0 /\ m_writer = <<>> /\ m_log = <<>>
    /\ m_wfail = FALSE /\ m_merged_count = 0 /\ m_processed_page_count = 0
    /\ m_out = <<>> /\ m_result = 0 - 3 /\ m_file = "untouched"
    \* the other components are at rest
    /\ c_pc = "idle" /\ c_args_ok = TRUE /\ c_in_exists = FALSE /\ c_in_pdf = FALSE
    /\ c_out_exists = FALSE /\ c_response = "" /\ c_asked = FALSE /\ c_exit = -1
    /\ u_pc = "idle" /\ u_input_file = FALSE /\ u_output_file = FALSE
    /\ u_out_exists = FALSE /\ u_input_button = FALSE /\ u_output_button = FALSE
    /\ u_process_button = FALSE /\ u_modal = "none" /\ u_confirmed = FALSE
    /\ u_running = 0 /\ u_emitted = <<>> /\ u_handled = 0 /\ u_unconfirmed = FALSE
    /\ a_pc = "idle" /\ a_input_dir = FALSE /\ a_output_file = FALSE
    /\ a_out_exists = FALSE /\ a_dir_button = FALSE /\ a_out_button = FALSE
    /\ a_merge_button = FALSE /\ a_modal = "none" /\ a_confirmed = FALSE
    /\ a_box = "none" /\ a_unconfirmed = FALSE
    /\ r_pc = "idle" /\ r_variant = "none" /\ r_layout = "none" /\ r_total = 0
    /\ r_bad = 0 /\ r_wfail = FALSE /\ r_i = 0 /\ r_sheets = <<>> /\ r_written = <<>>
    /\ r_announced = -1 /\ r_result = -2 /\ r_msgs = <<>>
    /\ g_pc = "idle" /\ g_variant = "none" /\ g_orientation = "none" /\ g_gap = 0
    /\ g_size_factor = RatInt(1) /\ g_count = 0 /\ g_slots = <<>> /\ g_last = <<>>
    /\ t_pc = "idle" /\ t_text = <<>> /\ t_fail = FALSE /\ t_result = <<>>
    /\ s_pc = "idle" /\ s_dir = <<>> /\ s_out = <<>>

\* iter_pdfs raises: merge does not catch it
MergeRaises ==
    /\ m_pc = "start"
    /\ iter_pdfs(Names(m_dir)).kind # "names"
    /\ m_pc' = "raised"
    /\ UNCHANGED m_file
    /\ UNCHANGED <<m_dir, m_paths, m_i, m_writer, m_log, m_wfail, m_merged_count,
                   m_processed_page_count, m_out, m_result>>
    /\ UNCHANGED <<geomVars, rotVars, titleVars, sortVars, cliVars, guiVars, appVars>>

\* if not count: return 0
MergeNoFiles ==
    /\ m_pc = "start"
    /\ iter_pdfs(Names(m_dir)).kind = "names"
    /\ iter_pdfs(Names(m_dir)).names = <<>>
    /\ m_result' = 0
    /\ m_pc' = "done"
    /\ UNCHANGED m_file
    /\ UNCHANGED <<m_dir, m_paths, m_i, m_writer, m_log, m_wfail, m_merged_count,
                   m_processed_page_count, m_out>>
    /\ UNCHANGED <<geomVars, rotVars, titleVars, sortVars, cliVars, guiVars, appVars>>

MergeStart ==
    /\ m_pc = "start"
    /\ iter_pdfs(Names(m_dir)).kind = "names"
    /\ iter_pdfs(Names(m_dir)).names # <<>>
    /\ m_paths' = iter_pdfs(Names(m_dir)).names
    /\ m_i' = 1
    /\ m_pc' = "loop"
    /\ UNCHANGED m_file
    /\ UNCHANGED <<m_dir, m_writer, m_log, m_wfail, m_merged_count,
                   m_processed_page_count, m_out, m_result>>
    /\ UNCHANGED <<geomVars, rotVars, titleVars, sortVars, cliVars, guiVars, appVars>>

\* One iteration of the loop over pdf_paths.
\*   title_fail    rendering the title raises inside make_title_page
\*   append_fail   writer.append raises for the title page
\*   first_fail    the first read raises after that many sheets were added (NoFail: no
\*                 exception)
\*   e_strict      the exception has a true attribute strict
\*   second_fail   the same for the non-strict read
MergeFile ==
    /\ m_pc = "loop"
    /\ m_i <= Len(m_paths)
    /\ LET pdf_path == m_paths[m_i]
           pages == PagesOf(m_dir, pdf_path)
       IN  \E title_fail, append_fail, e_strict \in BOOLEAN :
           \E first_fail, second_fail \in {NoFail} \cup (0..pages) :
              LET title_pdf == make_title_page(Stem(pdf_path), title_fail)
                  has_title == title_pdf.kind = "page"
                  skipped == has_title /\ append_fail
                  title_pages == IF has_title /\ ~append_fail
                                 THEN <<TitlePage(pdf_path)>> ELSE <<>>
                  first == BodyPages(pdf_path, Added(pages, first_fail), 1)
                  retried == first_fail # NoFail /\ e_strict
                  second == IF retried
                            THEN BodyPages(pdf_path, Added(pages, second_fail), 2)
                            ELSE <<>>
                  file_processed == \/ first_fail = NoFail
                                    \/ retried /\ second_fail = NoFail
                  entry == [file |-> pdf_path,
                            title |-> IF ~has_title THEN "none"
                                      ELSE IF append_fail THEN "append failed"
                                      ELSE "added",
                            attempts |-> IF skipped THEN 0
                                         ELSE IF retried THEN 2 ELSE 1,
                            first_failed |-> ~skipped /\ first_fail # NoFail,
                            processed |-> ~skipped /\ file_processed,
                            reported |-> ~skipped /\ ~file_processed]
              IN  \* inputs that are not looked at are fixed
                  /\ ~has_title => ~append_fail
                  /\ (skipped \/ first_fail = NoFail) => ~e_strict
                  /\ skipped => first_fail = NoFail
                  /\ ~retried => second_fail = NoFail
                  /\ m_writer' = IF skipped THEN m_writer
                                 ELSE m_writer \o title_pages \o first \o second
                  /\ m_processed_page_count' =
                        IF skipped THEN m_processed_page_count
                        ELSE m_processed_page_count + Len(title_pages) + Len(first)
                                 + Len(second)
                  /\ m_merged_count' =
                        IF ~skipped /\ file_processed THEN m_merged_count + 1
                        ELSE m_merged_count
                  /\ m_log' = Append(m_log, entry)
    /\ m_i' = m_i + 1
    /\ UNCHANGED <<m_pc, m_dir, m_paths, m_wfail, m_out, m_result, m_file>>
    /\ UNCHANGED <<geomVars, rotVars, titleVars, sortVars, cliVars, guiVars, appVars>>

\* merged_count > 0 and writer.write succeeds
MergeWrite ==
    /\ m_pc = "loop"
    /\ m_i > Len(m_paths)
    /\ m_merged_count > 0
    /\ m_out' = m_writer
    /\ m_file' = "written"
    /\ m_result' = m_merged_count
    /\ m_pc' = "done"
    /\ UNCHANGED <<m_dir, m_paths, m_i, m_writer, m_log, m_wfail, m_merged_count,
                   m_processed_page_count>>
    /\ UNCHANGED <<geomVars, rotVars, titleVars, sortVars, cliVars, guiVars, appVars>>

\* merged_count > 0 and creating or writing the output raises
MergeWriteFails ==
    /\ m_pc = "loop"
    /\ m_i > Len(m_paths)
    /\ m_merged_count > 0
    /\ m_wfail' = TRUE
    \* mkdir or open raised, or open truncated the file and writer.write raised
    /\ m_file' \in {"untouched", "truncated"}
    /\ m_merged_count' = 0 - 1
    /\ m_result' = 0 - 1
    /\ m_pc' = "done"
    /\ UNCHANGED <<m_dir, m_paths, m_i, m_writer, m_log, m_processed_page_count, m_out>>
    /\ UNCHANGED <<geomVars, rotVars, titleVars, sortVars, cliVars, guiVars, appVars>>

\* files were found and none was merged
MergeNoneMerged ==
    /\ m_pc = "loop"
    /\ m_i > Len(m_paths)
    /\ m_merged_count = 0
    /\ m_merged_count' = 0 - 2
    /\ m_result' = 0 - 2
    /\ m_pc' = "done"
    /\ UNCHANGED m_file
    /\ UNCHANGED <<m_dir, m_paths, m_i, m_writer, m_log, m_wfail,
                   m_processed_page_count, m_out>>
    /\ UNCHANGED <<geomVars, rotVars, titleVars, sortVars, cliVars, guiVars, appVars>>

NextMerge ==
    \/ MergeRaises
    \/ MergeNoFiles
    \/ MergeStart
    \/ MergeFile
    \/ MergeWrite
    \/ MergeWriteFails
    \/ MergeNoneMerged

SpecMerge == InitMerge /\ [][NextMerge]_vars

RECURSIVE Concat(_)
Concat(seqs) == IF seqs = <<>> THEN <<>> ELSE Head(seqs) \o Concat(Tail(seqs))

\* merge returned a positive count and wrote the output
MergeSucceeded == m_pc = "done" /\ m_result > 0

\* no read of any file raised
AllReadable == \A i \in 1..Len(m_log) : ~m_log[i].first_failed

\* the names are in natural order: no key is greater than the next one
InNaturalOrder(names) ==
    \A i \in 1..(Len(names) - 1) :
        KeyCompare(natural_key(names[i]).key, natural_key(names[i + 1]).key)
            \in {"lt", "eq"}

\* a file's title page followed by all of its pages in their original order
FullBlock(name) ==
    <<TitlePage(name)>> \o BodyPages(name, PagesOf(m_dir, name), 1)

\* what the i-th file contributes when its read succeeds: the title page, if one was
\* produced and added, then its pages; nothing when the title page could not be added
ActualBlock(i) ==
    IF m_log[i].title = "append failed" THEN <<>>
    ELSE (IF m_log[i].title = "added" THEN <<TitlePage(m_log[i].file)>> ELSE <<>>)
         \o BodyPages(m_log[i].file, PagesOf(m_dir, m_log[i].file), 1)

C9_RetriedOnce ==
    \A i \in 1..Len(m_log) :
        /\ m_log[i].attempts <= 2
        /\ m_log[i].first_failed => m_log[i].attempts = 2
        /\ m_log[i].reported => m_log[i].attempts = 2

\* the sheets of the output added for the file of that name
OutputOf(name) == SelectSeq(m_out, LAMBDA pg : pg.file = name)

\* C10: a file that ends up reported as failed is skipped: the written output holds no
\* title page and no body page added for that file, the pages of a file that succeeds
\* on the non-strict retry appear once each, and the failed file is not counted in the
\* returned merged count.
C10_FailedFileSkipped ==
    MergeSucceeded =>
        /\ \A i \in 1..Len(m_log) :
              m_log[i].reported => OutputOf(m_log[i].file) = <<>>
        /\ \A i \in 1..Len(m_log) :
              (m_log[i].processed /\ m_log[i].attempts = 2) =>
                  \A n \in 1..PagesOf(m_dir, m_log[i].file) :
                      Cardinality({k \in 1..Len(m_out) :
                                      /\ m_out[k].file = m_log[i].file
                                      /\ m_out[k].kind = "body"
                                      /\ m_out[k].num = n}) = 1
        /\ m_result = Cardinality({i \in 1..Len(m_log) : m_log[i].processed})

----------------------------------------------------------------------------
(* Unsupported layouts (SpecGeom).                                         *)

\* C18: a layout value other than side-by-side, top-bottom and top-bottom-3 is
\* treated as unsupported configuration by the layout functions and is never
\* silently laid out as one of the supported layouts: no page is placed for it.
C18_UnsupportedLayoutRejected ==
    g_orientation \notin Layouts => g_slots = <<>>

----------------------------------------------------------------------------
(* Further properties of merge (SpecMerge).                                *)

\* how many files were processed successfully
ProcessedCount == Cardinality({i \in 1..Len(m_log) : m_log[i].processed})

\* C12: merge's result separates its four outcomes for every run: 0 exactly when the
\* directory holds no PDF, -2 exactly when PDFs were found but none was processed
\* successfully, -1 exactly when at least one file was processed but writing the
\* output failed, otherwise the positive number of files processed successfully; and
\* the output file is written only in the positive case.
C12_ReturnCodes ==
    m_pc = "done" =>
          /\ m_result \in {0, 0 - 1, 0 - 2} \cup (1..Len(m_dir))
          /\ m_result = 0 <=> m_dir = <<>>
          /\ m_result = 0 - 2 <=> (m_dir # <<>> /\ ProcessedCount = 0)
          /\ m_result = 0 - 1 <=> (ProcessedCount > 0 /\ m_wfail)
          /\ m_result > 0 <=> (ProcessedCount > 0 /\ ~m_wfail)
          /\ m_result > 0 => m_result = ProcessedCount
          /\ m_file # "untouched" => m_result > 0

\* the writer holds every page of the file of that name
HoldsPagesOf(name) ==
    \A n \in 1..PagesOf(m_dir, name) :
        \E k \in 1..Len(m_writer) :
            /\ m_writer[k].kind = "body"
            /\ m_writer[k].file = name
            /\ m_writer[k].num = n

\* C13: a title-page failure for a file never aborts the run and never drops the
\* file: whenever no title page can be produced or added for a file, the file's own
\* pages are still merged into the output without a title separator (if the file can
\* be read), and the following files are still processed.
C13_TitleFailureKeepsFile ==
    /\ m_pc = "done" => Len(m_log) = Len(m_paths)
    /\ \A i \in 1..Len(m_log) :
          m_log[i].title # "added" =>
              /\ m_log[i].attempts >= 1
              /\ m_log[i].processed => HoldsPagesOf(m_log[i].file)

----------------------------------------------------------------------------
(* Properties of process_pdf (SpecRot).                                    *)

\* the groups process_pdf forms from a document of that many pages, in loop order
RECURSIVE GroupsFrom(_, _, _, _)
GroupsFrom(variant, layout, i, total) ==
    IF i >= total THEN <<>>
    ELSE <<Group(variant, layout, i, total)>>
         \o GroupsFrom(variant, layout, i + Step(variant, layout), total)

\* the sheet holds that source page
OnSheet(sheet, page) == \E k \in 1..Len(sheet) : sheet[k] = page

\* C11: when composing one sheet fails because a source page of its group cannot be
\* read, only that sheet is skipped: the groups after it are still composed and the
\* run still writes the sheets that succeeded.
C11_OnlyFailedSheetSkipped ==
    (r_pc = "done" /\ r_bad > 0 /\ ~r_wfail) =>
        LET groups == GroupsFrom(r_variant, r_layout, 0, r_total)
        IN  \A g \in 1..Len(groups) :
                ~OnSheet(groups[g], r_bad) =>
                    /\ r_written # <<>>
                    /\ \E k \in 1..Len(r_written[1]) : r_written[1][k] = groups[g]

----------------------------------------------------------------------------
(* main of pdf_rotator_cli.py: the command line, the checks, the overwrite *)
(* prompt, process_pdf and the exit code.                                  *)

\* a call of process_pdf: the document and the faults of the run are inputs
ProcessPdfCalled(variant, layouts) ==
    /\ r_pc' = "start"
    /\ r_variant' = variant
    /\ r_layout' \in layouts
    /\ r_total' \in 0..MaxPages
    /\ r_bad' \in (0 - 1)..r_total'
    /\ r_wfail' \in BOOLEAN
    /\ r_i' = 0 /\ r_sheets' = <<>> /\ r_written' = <<>>
    /\ r_announced' = 0 - 1 /\ r_result' = 0 - 2 /\ r_msgs' = <<>>

\* the drivers ask before they start on an output path that exists
NeverAsk(exists) == FALSE

NeedsConfirmation(exists) == exists

\* what the user may type at the prompt; "EOF": standard input is at its end
Responses == {"y", "Y", "yes", "YES", "n", "", "maybe", "EOF"}

\* response.lower()
ResponseLower(response) ==
    CASE response = "Y" -> "y" [] response = "YES" -> "yes" [] OTHER -> response

\* the exit code after process_pdf returned: sys.exit(1) unless result > 0
ExitAlwaysZero(result) == 0

ExitCode(result) == IF result > 0 THEN 0 ELSE 1

InitCli ==
    /\ c_pc = "start"
    /\ c_args_ok \in BOOLEAN
    /\ c_in_exists \in BOOLEAN
    /\ c_in_pdf \in BOOLEAN
    /\ c_out_exists \in BOOLEAN
    /\ c_response \in Responses
    /\ c_asked = FALSE
    /\ c_exit = 0 - 1
    \* the other components are at rest
    /\ g_pc = "idle" /\ g_variant = "none" /\ g_orientation = "none" /\ g_gap = 0
    /\ g_size_factor = RatInt(1) /\ g_count = 0 /\ g_slots = <<>> /\ g_last = <<>>
    /\ r_pc = "idle" /\ r_variant = "none" /\ r_layout = "none" /\ r_total = 0
    /\ r_bad = 0 /\ r_wfail = FALSE /\ r_i = 0 /\ r_sheets = <<>> /\ r_written = <<>>
    /\ r_announced = -1 /\ r_result = -2 /\ r_msgs = <<>>
    /\ t_pc = "idle" /\ t_text = <<>> /\ t_fail = FALSE /\ t_result = <<>>
    /\ s_pc = "idle" /\ s_dir = <<>> /\ s_out = <<>>
    /\ m_pc = "idle" /\ m_dir = <<>> /\ m_paths = <<>> /\ m_i = 0 /\ m_writer = <<>>
    /\ m_log = <<>> /\ m_wfail = FALSE /\ m_merged_count = 0
    /\ m_processed_page_count = 0 /\ m_out = <<>> /\ m_result = -3
    /\ m_file = "untouched"
    /\ u_pc = "idle" /\ u_input_file = FALSE /\ u_output_file = FALSE
    /\ u_out_exists = FALSE /\ u_input_button = FALSE /\ u_output_button = FALSE
    /\ u_process_button = FALSE /\ u_modal = "none" /\ u_confirmed = FALSE
    /\ u_running = 0 /\ u_emitted = <<>> /\ u_handled = 0 /\ u_unconfirmed = FALSE
    /\ a_pc = "idle" /\ a_input_dir = FALSE /\ a_output_file = FALSE
    /\ a_out_exists = FALSE /\ a_dir_button = FALSE /\ a_out_button = FALSE
    /\ a_merge_button = FALSE /\ a_modal = "none" /\ a_confirmed = FALSE
    /\ a_box = "none" /\ a_unconfirmed = FALSE

\* parser.parse_args() rejects the command line: argparse prints the usage and exits
\* with code 2
CliUsageError ==
    /\ c_pc = "start" /\ ~c_args_ok
    /\ c_exit' = 2 /\ c_pc' = "exited"
    /\ UNCHANGED <<c_args_ok, c_in_exists, c_in_pdf, c_out_exists, c_response, c_asked>>
    /\ UNCHANGED <<geomVars, rotVars, titleVars, sortVars, mergeVars, guiVars, appVars>>

\* if not input_path.exists(): sys.exit(1)
CliInputMissing ==
    /\ c_pc = "start" /\ c_args_ok /\ ~c_in_exists
    /\ c_exit' = 1 /\ c_pc' = "exited"
    /\ UNCHANGED <<c_args_ok, c_in_exists, c_in_pdf, c_out_exists, c_response, c_asked>>
    /\ UNCHANGED <<geomVars, rotVars, titleVars, sortVars, mergeVars, guiVars, appVars>>

\* if not input_path.suffix.lower() == '.pdf': sys.exit(1)
CliNotPdf ==
    /\ c_pc = "start" /\ c_args_ok /\ c_in_exists /\ ~c_in_pdf
    /\ c_exit' = 1 /\ c_pc' = "exited"
    /\ UNCHANGED <<c_args_ok, c_in_exists, c_in_pdf, c_out_exists, c_response, c_asked>>
    /\ UNCHANGED <<geomVars, rotVars, titleVars, sortVars, mergeVars, guiVars, appVars>>

\* if output_path.exists(): response = input(...)
CliAsk ==
    /\ c_pc = "start" /\ c_args_ok /\ c_in_exists /\ c_in_pdf
    /\ NeedsConfirmation(c_out_exists)
    /\ c_asked' = TRUE /\ c_pc' = "asking"
    /\ UNCHANGED <<c_args_ok, c_in_exists, c_in_pdf, c_out_exists, c_response, c_exit>>
    /\ UNCHANGED <<geomVars, rotVars, titleVars, sortVars, mergeVars, guiVars, appVars>>

\* input() raises EOFError, which nothing catches: traceback, exit code 1
CliPromptFails ==
    /\ c_pc = "asking" /\ c_response = "EOF"
    /\ c_exit' = 1 /\ c_pc' = "exited"
    /\ UNCHANGED <<c_args_ok, c_in_exists, c_in_pdf, c_out_exists, c_response, c_asked>>
    /\ UNCHANGED <<geomVars, rotVars, titleVars, sortVars, mergeVars, guiVars, appVars>>

\* if response.lower() not in ['y', 'yes']: print("Operation cancelled."); sys.exit(0)
CliCancelled ==
    /\ c_pc = "asking" /\ c_response # "EOF"
    /\ ResponseLower(c_response) \notin {"y", "yes"}
    /\ c_exit' = 0 /\ c_pc' = "exited"
    /\ UNCHANGED <<c_args_ok, c_in_exists, c_in_pdf, c_out_exists, c_response, c_asked>>
    /\ UNCHANGED <<geomVars, rotVars, titleVars, sortVars, mergeVars, guiVars, appVars>>

\* result = process_pdf(input_path, output_path, args.gap, args.layout, args.size):
\* the layout is one of argparse's choices
CliProcess ==
    /\ \/ /\ c_pc = "start" /\ c_args_ok /\ c_in_exists /\ c_in_pdf
          /\ ~NeedsConfirmation(c_out_exists)
       \/ c_pc = "asking" /\ ResponseLower(c_response) \in {"y", "yes"}
    /\ ProcessPdfCalled("cli", Layouts)
    /\ c_pc' = "processing"
    /\ UNCHANGED <<c_args_ok, c_in_exists, c_in_pdf, c_out_exists, c_response, c_asked,
                   c_exit>>
    /\ UNCHANGED <<geomVars, titleVars, sortVars, mergeVars, guiVars, appVars>>

\* process_pdf returned: if result > 0 main ends (exit code 0), else sys.exit(1)
CliExit ==
    /\ c_pc = "processing" /\ r_pc = "done"
    /\ c_exit' = ExitCode(r_result) /\ c_pc' = "exited"
    /\ UNCHANGED <<c_args_ok, c_in_exists, c_in_pdf, c_out_exists, c_response, c_asked>>
    /\ UNCHANGED <<geomVars, rotVars, titleVars, sortVars, mergeVars, guiVars, appVars>>

NextCli ==
    \/ CliUsageError \/ CliInputMissing \/ CliNotPdf \/ CliAsk \/ CliPromptFails
    \/ CliCancelled \/ CliProcess \/ CliExit
    \/ RotReadFails \/ RotNoPages \/ RotBegin \/ RotCompose \/ RotComposeFails
    \/ RotSave \/ RotSaveFails

SpecCli == InitCli /\ [][NextCli]_vars

\* processing succeeded and an output was written
CliSucceeded == r_pc = "done" /\ r_result > 0 /\ r_written # <<>>

\* the run ended on one of the failures the claim lists
CliFailure ==
    \/ c_args_ok /\ ~c_in_exists
    \/ c_args_ok /\ c_in_exists /\ ~c_in_pdf
    \/ r_pc = "done" /\ r_result < 0

\* the run ended on a check of main, before process_pdf
CliValidationFailure ==
    c_pc = "exited" /\ (~c_args_ok \/ ~c_in_exists \/ ~c_in_pdf)

\* nothing was read or written: process_pdf was never entered
NothingTouched == r_pc = "idle" /\ r_msgs = <<>> /\ r_written = <<>>

\* the user was asked and did not answer y or yes
CliDeclined ==
    c_asked /\ c_response # "EOF" /\ ResponseLower(c_response) \notin {"y", "yes"}

----------------------------------------------------------------------------
(* PDFRotatorApp and its worker thread PDFProcessor (src/pdf_rotator.py).  *)
(* The worker runs process_pdf; each status message and the completion     *)
(* code reach the window through queued signals, handled one at a time and *)
(* in the order of emission by the event loop of the GUI thread.  A click  *)
(* on a disabled button, or on the window while a modal dialog is open,    *)
(* reaches no handler.  The file dialogs and the plain message boxes are   *)
(* part of the handler that opens them; the overwrite question is a state  *)
(* of its own.  process_pdf catches every Exception itself, so the except  *)
(* branch of PDFProcessor.run is entered only if emitting a signal raises, *)
(* which is not modelled.                                                  *)

\* the layouts of layout_combo
ComboLayouts == {"side-by-side", "top-bottom"}

\* the argument of setEnabled for the three buttons when a worker is started
EnabledDuringRunOn == TRUE

EnabledDuringRun == FALSE

\* a faulty variant of the emission: no code after a failure
EmitOnSuccessOnly(codes, result) ==
    IF result > 0 THEN Append(codes, result) ELSE codes

\* self.processing_complete.emit(result)
EmitComplete(codes, result) == Append(codes, result)

\* update_process_button_state
ProcessButtonState(input_file, output_file) == input_file /\ output_file

InitGui ==
    /\ u_pc = "ready"
    /\ u_input_file = FALSE /\ u_output_file = FALSE /\ u_out_exists = FALSE
    /\ u_input_button = TRUE /\ u_output_button = TRUE /\ u_process_button = FALSE
    /\ u_modal = "none" /\ u_confirmed = FALSE
    /\ u_running = 0 /\ u_emitted = <<>> /\ u_handled = 0 /\ u_unconfirmed = FALSE
    \* the other components are at rest
    /\ g_pc = "idle" /\ g_variant = "none" /\ g_orientation = "none" /\ g_gap = 0
    /\ g_size_factor = RatInt(1) /\ g_count = 0 /\ g_slots = <<>> /\ g_last = <<>>
    /\ r_pc = "idle" /\ r_variant = "none" /\ r_layout = "none" /\ r_total = 0
    /\ r_bad = 0 /\ r_wfail = FALSE /\ r_i = 0 /\ r_sheets = <<>> /\ r_written = <<>>
    /\ r_announced = -1 /\ r_result = -2 /\ r_msgs = <<>>
    /\ t_pc = "idle" /\ t_text = <<>> /\ t_fail = FALSE /\ t_result = <<>>
    /\ s_pc = "idle" /\ s_dir = <<>> /\ s_out = <<>>
    /\ m_pc = "idle" /\ m_dir = <<>> /\ m_paths = <<>> /\ m_i = 0 /\ m_writer = <<>>
    /\ m_log = <<>> /\ m_wfail = FALSE /\ m_merged_count = 0
    /\ m_processed_page_count = 0 /\ m_out = <<>> /\ m_result = -3
    /\ m_file = "untouched"
    /\ c_pc = "idle" /\ c_args_ok = TRUE /\ c_in_exists = FALSE /\ c_in_pdf = FALSE
    /\ c_out_exists = FALSE /\ c_response = "" /\ c_asked = FALSE /\ c_exit = -1
    /\ a_pc = "idle" /\ a_input_dir = FALSE /\ a_output_file = FALSE
    /\ a_out_exists = FALSE /\ a_dir_button = FALSE /\ a_out_button = FALSE
    /\ a_merge_button = FALSE /\ a_modal = "none" /\ a_confirmed = FALSE
    /\ a_box = "none" /\ a_unconfirmed = FALSE

\* select_input_file: the dialog is cancelled, or a file is chosen; then
\* suggest_output_file sets the output path (which may exist) and
\* update_process_button_state enables the process button
GuiSelectInput ==
    /\ u_pc = "ready" /\ u_modal = "none" /\ u_input_button
    /\ \E chosen \in BOOLEAN, exists \in BOOLEAN :
          IF chosen
          THEN /\ u_input_file' = TRUE
               /\ u_output_file' = TRUE
               /\ u_out_exists' = exists
               /\ u_process_button' = ProcessButtonState(TRUE, TRUE)
          ELSE /\ exists = FALSE
               /\ UNCHANGED <<u_input_file, u_output_file, u_out_exists,
                              u_process_button>>
    /\ UNCHANGED <<u_pc, u_input_button, u_output_button, u_modal, u_confirmed,
                   u_running, u_emitted, u_handled, u_unconfirmed>>
    /\ UNCHANGED <<geomVars, rotVars, titleVars, sortVars, mergeVars, cliVars, appVars>>

\* select_output_file: a warning without an input file; else the dialog is
\* cancelled or a path is chosen
GuiSelectOutput ==
    /\ u_pc = "ready" /\ u_modal = "none" /\ u_output_button
    /\ \E chosen \in BOOLEAN, exists \in BOOLEAN :
          IF u_input_file /\ chosen
          THEN /\ u_output_file' = TRUE
               /\ u_out_exists' = exists
               /\ u_process_button' = ProcessButtonState(u_input_file, TRUE)
          ELSE /\ exists = FALSE
               /\ UNCHANGED <<u_output_file, u_out_exists, u_process_button>>
    /\ UNCHANGED <<u_pc, u_input_file, u_input_button, u_output_button, u_modal,
                   u_confirmed, u_running, u_emitted, u_handled, u_unconfirmed>>
    /\ UNCHANGED <<geomVars, rotVars, titleVars, sortVars, mergeVars, cliVars, appVars>>

\* run_processing from "Disable buttons during processing" on: the buttons, the
\* worker object and self.processor.start()
WorkerStarted ==
    /\ u_input_button' = EnabledDuringRun
    /\ u_output_button' = EnabledDuringRun
    /\ u_process_button' = EnabledDuringRun
    /\ u_running' = u_running + 1
    /\ u_emitted' = <<>>
    /\ u_handled' = 0
    /\ ProcessPdfCalled("gui", ComboLayouts)

\* a click on the process button: run_processing up to the overwrite question.
\* (Both paths are set whenever the button is enabled.)  A missing input file ends
\* the handler with a message box.
GuiProcessClick ==
    /\ u_pc = "ready" /\ u_modal = "none" /\ u_process_button
    /\ u_input_file /\ u_output_file
    /\ \E input_exists \in BOOLEAN :
          IF ~input_exists
          THEN UNCHANGED <<rotVars, u_input_button, u_output_button, u_process_button,
                           u_modal, u_confirmed, u_running, u_emitted, u_handled,
                           u_unconfirmed>>
          ELSE IF NeedsConfirmation(u_out_exists)
          THEN /\ u_modal' = "question"
               /\ u_confirmed' = FALSE
               /\ UNCHANGED <<rotVars, u_input_button, u_output_button,
                              u_process_button, u_running, u_emitted, u_handled,
                              u_unconfirmed>>
          ELSE /\ WorkerStarted
               /\ u_confirmed' = FALSE
               /\ u_unconfirmed' = (u_unconfirmed \/ u_out_exists)
               /\ UNCHANGED u_modal
    /\ UNCHANGED <<u_pc, u_input_file, u_output_file, u_out_exists>>
    /\ UNCHANGED <<geomVars, titleVars, sortVars, mergeVars, cliVars, appVars>>

\* reply == No: "Processing cancelled by user (file exists)."; return
GuiAnswerNo ==
    /\ u_pc = "ready" /\ u_modal = "question"
    /\ u_modal' = "none"
    /\ UNCHANGED <<u_pc, u_input_file, u_output_file, u_out_exists, u_input_button,
                   u_output_button, u_process_button, u_confirmed, u_running,
                   u_emitted, u_handled, u_unconfirmed>>
    /\ UNCHANGED <<geomVars, rotVars, titleVars, sortVars, mergeVars, cliVars, appVars>>

\* reply == Yes: run_processing goes on and starts the worker
GuiAnswerYes ==
    /\ u_pc = "ready" /\ u_modal = "question"
    /\ u_modal' = "none"
    /\ u_confirmed' = TRUE
    /\ WorkerStarted
    /\ UNCHANGED <<u_pc, u_input_file, u_output_file, u_out_exists, u_unconfirmed>>
    /\ UNCHANGED <<geomVars, titleVars, sortVars, mergeVars, cliVars, appVars>>

\* PDFProcessor.run after process_pdf returned: processing_complete.emit(result)
WorkerEmitComplete ==
    /\ u_running > 0 /\ r_pc = "done" /\ u_emitted = <<>>
    /\ u_emitted' = EmitComplete(u_emitted, r_result)
    /\ UNCHANGED <<u_pc, u_input_file, u_output_file, u_out_exists, u_input_button,
                   u_output_button, u_process_button, u_modal, u_confirmed, u_running,
                   u_handled, u_unconfirmed>>
    /\ UNCHANGED <<geomVars, rotVars, titleVars, sortVars, mergeVars, cliVars, appVars>>

\* update_status, the slot of progress_updated: the next message in the queue
GuiHandleProgress ==
    /\ u_pc = "ready" /\ u_running > 0
    /\ u_handled < Len(r_msgs)
    /\ u_handled' = u_handled + 1
    /\ UNCHANGED <<u_pc, u_input_file, u_output_file, u_out_exists, u_input_button,
                   u_output_button, u_process_button, u_modal, u_confirmed, u_running,
                   u_emitted, u_unconfirmed>>
    /\ UNCHANGED <<geomVars, rotVars, titleVars, sortVars, mergeVars, cliVars, appVars>>

\* processing_finished, the slot of processing_complete: it is queued behind the
\* progress messages emitted before it.  The output path exists afterwards if the
\* worker wrote it, and may exist if the worker failed while saving.
GuiHandleComplete ==
    /\ u_pc = "ready" /\ u_running > 0
    /\ u_emitted # <<>> /\ u_handled = Len(r_msgs)
    /\ u_input_button' = TRUE
    /\ u_output_button' = TRUE
    /\ u_process_button' = ProcessButtonState(u_input_file, u_output_file)
    /\ u_running' = u_running - 1
    /\ u_out_exists' \in
          IF r_written # <<>> THEN {TRUE}
          ELSE IF r_msgs # <<>> /\ r_msgs[Len(r_msgs) - 1] = "saving"
               THEN {u_out_exists, TRUE}
          ELSE {u_out_exists}
    /\ UNCHANGED <<u_pc, u_input_file, u_output_file, u_modal, u_confirmed, u_emitted,
                   u_handled, u_unconfirmed>>
    /\ UNCHANGED <<geomVars, rotVars, titleVars, sortVars, mergeVars, cliVars, appVars>>

NextGui ==
    \/ GuiSelectInput \/ GuiSelectOutput \/ GuiProcessClick \/ GuiAnswerNo
    \/ GuiAnswerYes \/ WorkerEmitComplete \/ GuiHandleProgress \/ GuiHandleComplete
    \/ RotReadFails \/ RotNoPages \/ RotBegin \/ RotCompose \/ RotComposeFails
    \/ RotSave \/ RotSaveFails

SpecGui == InitGui /\ [][NextGui]_vars

\* the worker thread is scheduled until run returns, and the event loop of the GUI
\* thread delivers the queued signals
FairSpecGui ==
    /\ SpecGui
    /\ WF_vars(RotReadFails \/ RotNoPages \/ RotBegin \/ RotCompose \/ RotComposeFails
                  \/ RotSave \/ RotSaveFails)
    /\ WF_vars(WorkerEmitComplete)
    /\ WF_vars(GuiHandleProgress)
    /\ WF_vars(GuiHandleComplete)

----------------------------------------------------------------------------
(* Properties of the rotator GUI (SpecGui, FairSpecGui).                   *)

\* a worker was started and has not emitted its completion code yet
WorkerPending == u_running > 0 /\ u_emitted = <<>>

\* the worker emits at most one code, after process_pdf returned, and it is the
\* value process_pdf returned: the page count, or -1
OneCode ==
    /\ Len(u_emitted) <= 1
    /\ u_emitted # <<>> =>
          /\ r_pc = "done"
          /\ u_emitted[1] = r_result
          /\ u_emitted[1] = r_total \/ u_emitted[1] = 0 - 1

\* once the code of a run is emitted, and until another worker is started, no
\* progress message and no second code is emitted
NothingAfterCode ==
    (u_emitted # <<>> /\ u_running' <= u_running) =>
        /\ r_msgs' = r_msgs
        /\ u_emitted' = u_emitted

\* the code is handled only after it was emitted and every progress message of the
\* run was handled
HandledInOrder ==
    u_running' < u_running => (u_emitted # <<>> /\ u_handled = Len(r_msgs))

\* C17: every start of the background worker eventually emits exactly one completion
\* code (the processed page count, or -1 on any failure); it is emitted after all
\* progress messages of that run, and no progress message of a run follows its
\* completion code.
C17_CompletionCode ==
    /\ []OneCode
    /\ [][NothingAfterCode /\ HandledInOrder]_vars
    /\ WorkerPending ~> (Len(u_emitted) = 1)

\* a run that failed: its messages were handled, then its code -1
C17_Witness ==
    /\ u_running = 0
    /\ u_emitted = <<0 - 1>>
    /\ Len(r_msgs) >= 3
    /\ u_handled = Len(r_msgs)

\* the three buttons are disabled
ButtonsDisabled == ~u_input_button /\ ~u_output_button /\ ~u_process_button

\* C19: at most one background worker is running at any time, under every
\* interleaving of user clicks and worker signals: from the start of a worker until
\* its completion code is handled the process, input and output buttons stay disabled
\* so no second worker can be started, and once the code is handled the buttons are
\* enabled again.
C19_SingleWorker ==
    /\ u_running \in {0, 1}
    /\ u_running = 1 => ButtonsDisabled
    /\ (u_pc = "ready" /\ u_running = 0) =>
          /\ u_input_button /\ u_output_button
          /\ u_process_button = ProcessButtonState(u_input_file, u_output_file)

\* the code of a first run was handled, a second worker is running
C19_Witness ==
    /\ u_running = 1
    /\ r_pc = "loop"
    /\ u_confirmed
    /\ ButtonsDisabled

----------------------------------------------------------------------------
(* PdfMergerApp (src/main.py): merge runs in the GUI thread, inside the    *)
(* click handler run_merge.                                                *)

\* the folders tried from the GUI: empty, one file, one file whose name makes
\* iter_pdfs raise
AppListings ==
    {<<>>, <<File(Pdf(<<"b">>), 1)>>, <<File(Pdf(<<"^2", "1">>), 1)>>}

\* a call of merge
MergeCalled ==
    /\ m_pc' = "start"
    /\ m_dir' \in AppListings
    /\ m_paths' = <<>> /\ m_i' = 0 /\ m_writer' = <<>> /\ m_log' = <<>>
    /\ m_wfail' = FALSE /\ m_merged_count' = 0 /\ m_processed_page_count' = 0
    /\ m_out' = <<>> /\ m_result' = 0 - 3 /\ m_file' = "untouched"

\* update_merge_button_state
MergeButtonState(input_dir, output_file) == input_dir /\ output_file

\* the message box run_merge shows for a result of merge
ResultBox(result) ==
    IF result > 0 THEN "success"
    ELSE IF result = 0 THEN "no files"
    ELSE IF result = 0 - 1 THEN "save error"
    ELSE IF result = 0 - 2 THEN "merge issues"
    ELSE "unexpected result"

InitApp ==
    /\ a_pc = "ready"
    /\ a_input_dir = FALSE /\ a_output_file = FALSE /\ a_out_exists = FALSE
    /\ a_dir_button = TRUE /\ a_out_button = TRUE /\ a_merge_button = FALSE
    /\ a_modal = "none" /\ a_confirmed = FALSE /\ a_box = "none"
    /\ a_unconfirmed = FALSE
    \* the other components are at rest
    /\ g_pc = "idle" /\ g_variant = "none" /\ g_orientation = "none" /\ g_gap = 0
    /\ g_size_factor = RatInt(1) /\ g_count = 0 /\ g_slots = <<>> /\ g_last = <<>>
    /\ r_pc = "idle" /\ r_variant = "none" /\ r_layout = "none" /\ r_total = 0
    /\ r_bad = 0 /\ r_wfail = FALSE /\ r_i = 0 /\ r_sheets = <<>> /\ r_written = <<>>
    /\ r_announced = -1 /\ r_result = -2 /\ r_msgs = <<>>
    /\ t_pc = "idle" /\ t_text = <<>> /\ t_fail = FALSE /\ t_result = <<>>
    /\ s_pc = "idle" /\ s_dir = <<>> /\ s_out = <<>>
    /\ m_pc = "idle" /\ m_dir = <<>> /\ m_paths = <<>> /\ m_i = 0 /\ m_writer = <<>>
    /\ m_log = <<>> /\ m_wfail = FALSE /\ m_merged_count = 0
    /\ m_processed_page_count = 0 /\ m_out = <<>> /\ m_result = -3
    /\ m_file = "untouched"
    /\ c_pc = "idle" /\ c_args_ok = TRUE /\ c_in_exists = FALSE /\ c_in_pdf = FALSE
    /\ c_out_exists = FALSE /\ c_response = "" /\ c_asked = FALSE /\ c_exit = -1
    /\ u_pc = "idle" /\ u_input_file = FALSE /\ u_output_file = FALSE
    /\ u_out_exists = FALSE /\ u_input_button = FALSE /\ u_output_button = FALSE
    /\ u_process_button = FALSE /\ u_modal = "none" /\ u_confirmed = FALSE
    /\ u_running = 0 /\ u_emitted = <<>> /\ u_handled = 0 /\ u_unconfirmed = FALSE

\* select_directory: update_merge_button_state runs before the suggested output
\* path is stored, so it sees the output path of before
AppSelectDirectory ==
    /\ a_pc = "ready" /\ a_modal = "none" /\ a_dir_button
    /\ \E chosen \in BOOLEAN, exists \in BOOLEAN :
          IF chosen
          THEN /\ a_input_dir' = TRUE
               /\ a_merge_button' = MergeButtonState(TRUE, a_output_file)
               /\ a_output_file' = TRUE
               /\ a_out_exists' = exists
          ELSE /\ exists = FALSE
               /\ UNCHANGED <<a_input_dir, a_merge_button, a_output_file, a_out_exists>>
    /\ UNCHANGED <<a_pc, a_dir_button, a_out_button, a_modal, a_confirmed, a_box,
                   a_unconfirmed>>
    /\ UNCHANGED <<geomVars, rotVars, titleVars, sortVars, mergeVars, cliVars, guiVars>>

\* select_output
AppSelectOutput ==
    /\ a_pc = "ready" /\ a_modal = "none" /\ a_out_button
    /\ \E chosen \in BOOLEAN, exists \in BOOLEAN :
          IF chosen
          THEN /\ a_output_file' = TRUE
               /\ a_out_exists' = exists
               /\ a_merge_button' = MergeButtonState(a_input_dir, TRUE)
          ELSE /\ exists = FALSE
               /\ UNCHANGED <<a_output_file, a_out_exists, a_merge_button>>
    /\ UNCHANGED <<a_pc, a_input_dir, a_dir_button, a_out_button, a_modal, a_confirmed,
                   a_box, a_unconfirmed>>
    /\ UNCHANGED <<geomVars, rotVars, titleVars, sortVars, mergeVars, cliVars, guiVars>>

\* run_merge from "Disable buttons during merge" to the call of merge
MergeStarted ==
    /\ a_dir_button' = FALSE
    /\ a_out_button' = FALSE
    /\ a_merge_button' = FALSE
    /\ a_pc' = "merging"
    /\ MergeCalled

\* a click on the merge button: run_merge up to the overwrite question.  (Both paths
\* are set whenever the button is enabled.)
AppMergeClick ==
    /\ a_pc = "ready" /\ a_modal = "none" /\ a_merge_button
    /\ a_input_dir /\ a_output_file
    /\ IF NeedsConfirmation(a_out_exists)
       THEN /\ a_modal' = "question"
            /\ a_confirmed' = FALSE
            /\ UNCHANGED <<mergeVars, a_pc, a_dir_button, a_out_button, a_merge_button,
                           a_unconfirmed>>
       ELSE /\ MergeStarted
            /\ a_confirmed' = FALSE
            /\ a_unconfirmed' = (a_unconfirmed \/ a_out_exists)
            /\ UNCHANGED a_modal
    /\ UNCHANGED <<a_input_dir, a_output_file, a_out_exists, a_box>>
    /\ UNCHANGED <<geomVars, rotVars, titleVars, sortVars, cliVars, guiVars>>

\* reply == No: "Merge cancelled by user (file exists)."; return
AppAnswerNo ==
    /\ a_pc = "ready" /\ a_modal = "question"
    /\ a_modal' = "none"
    /\ UNCHANGED <<a_pc, a_input_dir, a_output_file, a_out_exists, a_dir_button,
                   a_out_button, a_merge_button, a_confirmed, a_box, a_unconfirmed>>
    /\ UNCHANGED <<geomVars, rotVars, titleVars, sortVars, mergeVars, cliVars, guiVars>>

\* reply == Yes: run_merge goes on and calls merge
AppAnswerYes ==
    /\ a_pc = "ready" /\ a_modal = "question"
    /\ a_modal' = "none"
    /\ a_confirmed' = TRUE
    /\ MergeStarted
    /\ UNCHANGED <<a_input_dir, a_output_file, a_out_exists, a_box, a_unconfirmed>>
    /\ UNCHANGED <<geomVars, rotVars, titleVars, sortVars, cliVars, guiVars>>

\* merge returned: the message box for the result; finally: the buttons again
AppMergeReturned ==
    /\ a_pc = "merging" /\ m_pc = "done"
    /\ a_box' = ResultBox(m_result)
    /\ a_out_exists' = (a_out_exists \/ m_file # "untouched")
    /\ a_dir_button' = TRUE
    /\ a_out_button' = TRUE
    /\ a_merge_button' = MergeButtonState(a_input_dir, a_output_file)
    /\ a_pc' = "ready"
    /\ UNCHANGED <<a_input_dir, a_output_file, a_modal, a_confirmed, a_unconfirmed>>
    /\ UNCHANGED <<geomVars, rotVars, titleVars, sortVars, mergeVars, cliVars, guiVars>>

\* merge raised: except Exception: the error box; finally: the buttons again
AppMergeRaised ==
    /\ a_pc = "merging" /\ m_pc = "raised"
    /\ a_box' = "unexpected error"
    /\ a_dir_button' = TRUE
    /\ a_out_button' = TRUE
    /\ a_merge_button' = MergeButtonState(a_input_dir, a_output_file)
    /\ a_pc' = "ready"
    /\ UNCHANGED <<a_input_dir, a_output_file, a_out_exists, a_modal, a_confirmed,
                   a_unconfirmed>>
    /\ UNCHANGED <<geomVars, rotVars, titleVars, sortVars, mergeVars, cliVars, guiVars>>

NextApp ==
    \/ AppSelectDirectory \/ AppSelectOutput \/ AppMergeClick \/ AppAnswerNo
    \/ AppAnswerYes \/ AppMergeReturned \/ AppMergeRaised
    \/ MergeRaises \/ MergeNoFiles \/ MergeStart \/ MergeFile \/ MergeWrite
    \/ MergeWriteFails \/ MergeNoneMerged

SpecApp == InitApp /\ [][NextApp]_vars

----------------------------------------------------------------------------
(* The three drivers together.                                             *)

InitDrivers == InitCli \/ InitGui \/ InitApp

NextDrivers ==
    \/ CliUsageError \/ CliInputMissing \/ CliNotPdf \/ CliAsk \/ CliPromptFails
    \/ CliCancelled \/ CliProcess \/ CliExit
    \/ GuiSelectInput \/ GuiSelectOutput \/ GuiProcessClick \/ GuiAnswerNo
    \/ GuiAnswerYes \/ WorkerEmitComplete \/ GuiHandleProgress \/ GuiHandleComplete
    \/ RotReadFails \/ RotNoPages \/ RotBegin \/ RotCompose \/ RotComposeFails
    \/ RotSave \/ RotSaveFails
    \/ AppSelectDirectory \/ AppSelectOutput \/ AppMergeClick \/ AppAnswerNo
    \/ AppAnswerYes \/ AppMergeReturned \/ AppMergeRaised
    \/ MergeRaises \/ MergeNoFiles \/ MergeStart \/ MergeFile \/ MergeWrite
    \/ MergeWriteFails \/ MergeNoneMerged

SpecDrivers == InitDrivers /\ [][NextDrivers]_vars

\* the cli reached process_pdf on an existing output path only after a y or yes
CliConfirmed ==
    (r_variant = "cli" /\ r_pc # "idle" /\ c_out_exists) =>
        (c_asked /\ ResponseLower(c_response) \in {"y", "yes"})

\* a step in which the user declines: the answer No in a GUI, another answer than
\* y or yes at the prompt of the cli
DeclineStep ==
    \/ u_modal = "question" /\ u_modal' = "none" /\ ~u_confirmed'
    \/ a_modal = "question" /\ a_modal' = "none" /\ ~a_confirmed'
    \/ c_pc = "asking" /\ c_pc' = "exited" /\ c_exit' = 0

\* no processing is started and the existing output stays as it is
NotStarted ==
    /\ UNCHANGED <<rotVars, mergeVars>>
    /\ r_pc \in {"idle", "done"}
    /\ m_pc \in {"idle", "done", "raised"}
    /\ u_running' = 0 /\ a_pc' # "merging" /\ c_pc' # "processing"
    /\ u_out_exists' = u_out_exists /\ a_out_exists' = a_out_exists

\* C15: in all three drivers (merge GUI, rotator GUI, rotator cli) an output path
\* that already exists is never written unless the user gave explicit confirmation in
\* that same invocation before processing started; when the user declines, processing
\* is not started and the existing file is left unchanged.
C15_OverwriteConfirmed ==
    /\ [](~u_unconfirmed /\ ~a_unconfirmed /\ CliConfirmed)
    /\ [][DeclineStep => NotStarted]_vars

\* the merge GUI wrote over an existing output after the answer Yes
C15_Witness ==
    /\ a_out_exists /\ a_confirmed
    /\ m_pc = "done" /\ m_file = "written"

----------------------------------------------------------------------------
(* The words of a wrapped title (make_title_page, src/main.py).            *)

\* " ".join(ss)
RECURSIVE JoinBySpaces(_)
JoinBySpaces(ss) ==
    IF ss = <<>> THEN <<>>
    ELSE IF Len(ss) = 1 THEN ss[1]
    ELSE ss[1] \o <<" ">> \o JoinBySpaces(Tail(ss))

\* C21: for every title text that is wrapped (wider than 80% of the sheet width),
\* joining the drawn lines with single spaces yields exactly the text's
\* whitespace-separated words in their original order, each once and unmodified,
\* and no drawn line is empty.
C21_WrapKeepsWords ==
    (TitleDrawn /\ TooWide(stringWidth(t_text))) =>
        /\ JoinBySpaces(t_result[1].lines) = JoinBySpaces(split(t_text))
        /\ split(JoinBySpaces(t_result[1].lines)) = split(t_text)
        /\ \A i \in 1..Len(t_result[1].lines) : t_result[1].lines[i] # <<>>

\* a text of three or more words wrapped into several lines, one of them holding
\* more than one word
C21_Witness ==
    /\ TitleDrawn /\ TooWide(stringWidth(t_text))
    /\ WordCount(t_text) >= 3
    /\ Len(t_result[1].lines) >= 2
    /\ \E i \in 1..Len(t_result[1].lines) : WordCount(t_result[1].lines[i]) >= 2

----------------------------------------------------------------------------
(* The whole program: one run of any of its components.                    *)

Init ==
    \/ InitGeom \/ InitRot \/ InitTitle \/ InitSort \/ InitMerge
    \/ InitCli \/ InitGui \/ InitApp

Next ==
    \/ NextGeom \/ NextRot \/ NextTitle \/ NextSort \/ NextMerge
    \/ NextCli \/ NextGui \/ NextApp

Spec == Init /\ [][Next]_vars

====
